---- MODULE Spec2Model ----
(***************************************************************************)
(* Onboarding bot: hires with three sub-statuses and a derived overall     *)
(* status (bot/services/hire_service.py), the inline-button handlers       *)
(* (bot/handlers/callbacks.py, bot/handlers/commands.py) and the two       *)
(* periodic reminder/escalation passes (bot/scheduler/reminders.py with    *)
(* send_reminders, bot/services/scheduler.py with check_reminders).        *)
(*                                                                         *)
(* Dates are day numbers; days_until(d) is d - today.  A pass keeps the    *)
(* ORM objects its query loaded (pass.snap) and works through them one     *)
(* check at a time; handlers run in their own database session and may     *)
(* commit between two checks of a pass.                                    *)
(***************************************************************************)
EXTENDS Integers, Sequences, FiniteSets, TLC

\* ---- configuration defaults (bot/config.py) ----
LEGAL_REMINDER_DAYS == 3
DEVOPS_REMINDER_DAYS == 1
ESCALATION_HOURS == 24

\* ---- bounds of the exploration ----
MaxDay == 2
MaxHist == 3
MaxFail == 1
MaxDeskHist == 4

\* hire codes generate_hire_id can draw (SoloIds: the runs that follow one
\* hire through handlers and passes), start dates the wizard can be given
HireIds == {"H1", "H2"}
SoloIds == {"H1"}
StartDates == {1, 4}
NoteTexts == {"laptop"}
\* note texts typed after /note: one of NoteTexts, or one of 1001 characters
TypedNotes == NoteTexts \cup {"x1001"}

\* len(note_text)
NoteLength(note) ==
  CASE note = "laptop" -> 6
    [] note = "x1001" -> 1001

\* ---- users (Telegram accounts) and access lists ----
None == 0
Users ==
  { [id |-> 1, username |-> "recruiter"],
    [id |-> 3, username |-> "Legal"],
    [id |-> 5, username |-> "boss"],
    [id |-> 6, username |-> ""] }
\* the accounts of Users and two more: the account the leader's handle
\* resolved to, now under another handle, and the same for devops
Actors ==
  Users \cup { [id |-> 2, username |-> "teamlead"],
               [id |-> 4, username |-> "ops"] }
allowed_creators_list == {1}
admin_ids_list == {5}

\* str.lower() on the usernames in use
Lower(s) ==
  CASE s = "Legal" -> "legal"
    [] s = "Lead" -> "lead"
    [] OTHER -> s

\* the assignment the wizard collected: handles as typed, ids as resolved by
\* get_user_id_by_username (None when the handle is no chat administrator)
Assignment ==
  [ leader_id |-> 2, leader_username |-> "Lead",
    legal_id |-> None, legal_username |-> "legal",
    devops_id |-> 4, devops_username |-> "devops" ]

Kinds == {"legal", "devops", "escalation"}

\* the flag column of a notification kind
FlagOf(k) ==
  CASE k = "legal" -> "legal_reminded"
    [] k = "devops" -> "devops_reminded"
    [] k = "escalation" -> "escalated"

VARIABLES
  hires,      \* table hires: code -> row
  history,    \* table status_history: code -> sequence of action tags
  today,      \* the clock's current day
  wired,      \* which scheduler module the process runs
  pass,       \* the scheduler pass in flight: position, loaded rows, and
              \* the hires on which a send or a commit failed in this pass
  delivered,  \* per hire and kind, whether a notification has reached a
              \* recipient
  fails,      \* notifier / commit failures so far
  watch,      \* whether the replies of the handlers are kept in last
  wizard,     \* the /newhire wizard: per user, the FSM state and the data
              \* collected so far
  sessions,   \* units of work followed statement by statement: what each
              \* database session loaded and what its call then did
  last        \* what the last handler, service call or scheduler step did

vars ==
  <<hires, history, today, wired, pass, delivered, fails, watch, wizard,
    sessions, last>>

IdlePass == [phase |-> "idle", queue |-> <<>>, snap |-> <<>>, failed |-> {}]

NoLast ==
  [ op |-> "none", hire |-> "none", user |-> None, result |-> "none",
    arg |-> "none", stored |-> "none",
    view |-> "none", days |-> 0, dm |-> "none", chat |-> "none",
    commit |-> "none" ]

\* models.py Hire: column defaults, and the values create_hire passes
NewHire(start, creator, notes) ==
  [ status |-> "CREATED",
    leader_status |-> "PENDING",
    legal_status |-> "PENDING",
    devops_status |-> "PENDING",
    legal_reminded |-> FALSE,
    devops_reminded |-> FALSE,
    escalated |-> FALSE,
    start_date |-> start,
    notes |-> notes,
    creator_id |-> creator,
    leader_id |-> Assignment.leader_id,
    leader_username |-> Assignment.leader_username,
    legal_id |-> Assignment.legal_id,
    legal_username |-> Assignment.legal_username,
    devops_id |-> Assignment.devops_id,
    devops_username |-> Assignment.devops_username ]

\* the wizard of a user who has no run: FSMContext after state.clear()
IdleWizard == [state |-> "none", start |-> 0, checklist |-> {}, run |-> 0]

NoWizard == [id \in {u.id : u \in Users} |-> IdleWizard]

\* the sessions followed statement by statement, and one with no call yet
SessionIds == {"s1", "s2"}

IdleSession ==
  [ phase |-> "idle", op |-> "none", hire |-> "none", arg |-> "none",
    found |-> FALSE, loaded |-> NewHire(1, 1, <<>>), result |-> "none" ]

NoSessions == [s \in SessionIds |-> IdleSession]

\* the process after start-up, no hire yet
Boot ==
  /\ hires = <<>>
  /\ history = <<>>
  /\ today = 0
  /\ wired \in {"reminders", "services"}
  /\ pass = IdlePass
  /\ delivered = [h \in HireIds |-> [k \in Kinds |-> FALSE]]
  /\ fails = 0
  /\ sessions = NoSessions
  /\ wizard = NoWizard
  /\ last = NoLast

Init == Boot /\ watch = FALSE

Exists(h) == h \in DOMAIN hires

\* get_hire: the row or None
get_hire(h) == IF Exists(h) THEN hires[h] ELSE None

\* days_until (utils/formatting.py and utils/date_utils.py): date difference
days_until(dt) == dt - today

Abs(n) == IF n < 0 THEN 0 - n ELSE n

\* ---- hire_service.py ----

\* a derivation without the early return on COMPLETED
update_overall_status_rederives(hire) ==
  IF /\ hire.leader_status = "ACKNOWLEDGED"
     /\ hire.legal_status = "DOCS_SENT"
     /\ hire.devops_status = "ACCESS_GRANTED"
  THEN [hire EXCEPT !.status = "READY_FOR_DAY1"]
  ELSE IF \/ hire.leader_status # "PENDING"
          \/ hire.legal_status # "PENDING"
          \/ hire.devops_status # "PENDING"
       THEN [hire EXCEPT !.status = "IN_PROGRESS"]
  ELSE hire

\* a derivation that takes any finished sub-status for all of them
update_overall_status_any_done_is_ready(hire) ==
  IF hire.status = "COMPLETED" THEN hire
  ELSE IF \/ hire.leader_status = "ACKNOWLEDGED"
          \/ hire.legal_status = "DOCS_SENT"
          \/ hire.devops_status = "ACCESS_GRANTED"
       THEN [hire EXCEPT !.status = "READY_FOR_DAY1"]
  ELSE hire

\* HireService._update_overall_status
update_overall_status(hire) ==
  IF hire.status = "COMPLETED" THEN hire
  ELSE IF /\ hire.leader_status = "ACKNOWLEDGED"
          /\ hire.legal_status = "DOCS_SENT"
          /\ hire.devops_status = "ACCESS_GRANTED"
       THEN [hire EXCEPT !.status = "READY_FOR_DAY1"]
  ELSE IF \/ hire.leader_status # "PENDING"
          \/ hire.legal_status # "PENDING"
          \/ hire.devops_status # "PENDING"
       THEN [hire EXCEPT !.status = "IN_PROGRESS"]
  ELSE hire

\* HireService.update_leader_status / update_legal_status / update_devops_status:
\* the row after the commit
update_leader_status(hire, status) ==
  update_overall_status([hire EXCEPT !.leader_status = status])

\* an update of the legal column that does not derive the overall status
update_legal_status_without_derive(hire, status) ==
  [hire EXCEPT !.legal_status = status]

update_legal_status(hire, status) ==
  update_overall_status([hire EXCEPT !.legal_status = status])

\* an update of the devops column that does not derive the overall status
update_devops_status_without_derive(hire, status) ==
  [hire EXCEPT !.devops_status = status]

update_devops_status(hire, status) ==
  update_overall_status([hire EXCEPT !.devops_status = status])

\* a completion that also closes the three sub-statuses
mark_completed_closes_all(hire) ==
  [hire EXCEPT !.status = "COMPLETED", !.leader_status = "ACKNOWLEDGED",
               !.legal_status = "DOCS_SENT", !.devops_status = "ACCESS_GRANTED"]

\* HireService.mark_completed
mark_completed(hire) == [hire EXCEPT !.status = "COMPLETED"]

\* a reopen that derives the overall status from the sub-statuses
reopen_rederives(hire) ==
  IF /\ hire.leader_status = "ACKNOWLEDGED"
     /\ hire.legal_status = "DOCS_SENT"
     /\ hire.devops_status = "ACCESS_GRANTED"
  THEN [hire EXCEPT !.status = "READY_FOR_DAY1"]
  ELSE IF \/ hire.leader_status # "PENDING"
          \/ hire.legal_status # "PENDING"
          \/ hire.devops_status # "PENDING"
       THEN [hire EXCEPT !.status = "IN_PROGRESS"]
  ELSE [hire EXCEPT !.status = "CREATED"]

\* a reopen that also rearms the one-shot flags
reopen_resets_flags(hire) ==
  [hire EXCEPT !.status = "IN_PROGRESS", !.legal_reminded = FALSE,
               !.devops_reminded = FALSE, !.escalated = FALSE]

\* HireService.reopen
reopen(hire) == [hire EXCEPT !.status = "IN_PROGRESS"]

\* HireService.add_note
add_note(hire, note) == [hire EXCEPT !.notes = Append(hire.notes, note)]

\* HireService.mark_legal_reminded / mark_devops_reminded / mark_escalated
mark_legal_reminded(hire) == [hire EXCEPT !.legal_reminded = TRUE]

mark_devops_reminded(hire) == [hire EXCEPT !.devops_reminded = TRUE]

mark_escalated(hire) == [hire EXCEPT !.escalated = TRUE]

\* a commit that writes the row and leaves the history entry out
Commit_row_only(h, row, tag) ==
  /\ hires' = [hires EXCEPT ![h] = row]
  /\ history' = history

\* the commit of a service call: the row and its history entry together
Commit(h, row, tag) ==
  /\ hires' = [hires EXCEPT ![h] = row]
  /\ history' = [history EXCEPT ![h] = Append(history[h], tag)]

\* a creation that stores the row without its history entry
create_hire_without_entry(h, start, creator) ==
  /\ ~Exists(h)
  /\ creator \in allowed_creators_list
  /\ hires' = [x \in DOMAIN hires \cup {h} |->
                 IF x = h THEN NewHire(start, creator, <<>>) ELSE hires[x]]
  /\ history' = [x \in DOMAIN hires \cup {h} |->
                 IF x = h THEN <<>> ELSE history[x]]
  /\ last' = NoLast
  /\ UNCHANGED <<today, wired, pass, delivered, fails, watch, wizard, sessions>>

\* HireService.create_hire
create_hire(h, start, creator) ==
  /\ ~Exists(h)
  /\ creator \in allowed_creators_list
  /\ hires' = [x \in DOMAIN hires \cup {h} |->
                 IF x = h THEN NewHire(start, creator, <<>>) ELSE hires[x]]
  /\ history' = [x \in DOMAIN hires \cup {h} |->
                 IF x = h THEN <<"CREATED">> ELSE history[x]]
  /\ last' = NoLast
  /\ UNCHANGED <<today, wired, pass, delivered, fails, watch, wizard, sessions>>

\* ---- handlers/callbacks.py ----

\* an authorization check that compares the handles as typed
is_user_authorized_case_sensitive(user, hire, action) ==
  LET user_id == user.id
      username == user.username
      is_creator == user_id = hire.creator_id
      is_admin == user_id \in admin_ids_list
  IN  CASE action = "leader_ack" ->
             \/ user_id = hire.leader_id
             \/ username = hire.leader_username
             \/ is_creator
             \/ is_admin
        [] action = "docs_sent" ->
             \/ user_id = hire.legal_id
             \/ username = hire.legal_username
             \/ is_creator
             \/ is_admin
        [] action = "access_granted" ->
             \/ user_id = hire.devops_id
             \/ username = hire.devops_username
             \/ is_creator
             \/ is_admin
        [] action \in {"complete", "reopen", "add_note"} ->
             is_creator \/ is_admin
        [] action = "show_status" -> TRUE
        [] OTHER -> FALSE

\* an authorization check that lets the assigned leader complete, reopen and
\* annotate
is_user_authorized_leader_manages(user, hire, action) ==
  LET user_id == user.id
      username == Lower(user.username)
      is_creator == user_id = hire.creator_id
      is_admin == user_id \in admin_ids_list
  IN  CASE action = "leader_ack" ->
             \/ user_id = hire.leader_id
             \/ username = Lower(hire.leader_username)
             \/ is_creator
             \/ is_admin
        [] action = "docs_sent" ->
             \/ user_id = hire.legal_id
             \/ username = Lower(hire.legal_username)
             \/ is_creator
             \/ is_admin
        [] action = "access_granted" ->
             \/ user_id = hire.devops_id
             \/ username = Lower(hire.devops_username)
             \/ is_creator
             \/ is_admin
        [] action \in {"complete", "reopen", "add_note"} ->
             is_creator \/ is_admin \/ user_id = hire.leader_id
        [] action = "show_status" -> TRUE
        [] OTHER -> FALSE

\* is_user_authorized_for_action
is_user_authorized_for_action(user, hire, action) ==
  LET user_id == user.id
      username == Lower(user.username)
      is_creator == user_id = hire.creator_id
      is_admin == user_id \in admin_ids_list
  IN  CASE action = "leader_ack" ->
             \/ user_id = hire.leader_id
             \/ username = Lower(hire.leader_username)
             \/ is_creator
             \/ is_admin
        [] action = "docs_sent" ->
             \/ user_id = hire.legal_id
             \/ username = Lower(hire.legal_username)
             \/ is_creator
             \/ is_admin
        [] action = "access_granted" ->
             \/ user_id = hire.devops_id
             \/ username = Lower(hire.devops_username)
             \/ is_creator
             \/ is_admin
        [] action \in {"complete", "reopen", "add_note"} ->
             is_creator \/ is_admin
        [] action = "show_status" -> TRUE
        [] OTHER -> FALSE

\* what is kept of a handler's reply to user
Reply(op, h, user, result) ==
  IF watch
  THEN [NoLast EXCEPT !.op = op, !.hire = h, !.user = user.id,
                      !.result = result]
  ELSE NoLast

\* how long a history the runs followed let a hire have
HistBound == IF watch THEN MaxDeskHist ELSE MaxHist

\* a handler that answers without touching the store
Answer(op, h, user, result) ==
  /\ last' = Reply(op, h, user, result)
  /\ UNCHANGED <<hires, history, today, wired, pass, delivered, fails, watch, wizard, sessions>>

\* a handler that commits row and history entry, then answers
Apply(op, h, user, row, tag) ==
  /\ Len(history[h]) < HistBound
  /\ Commit(h, row, tag)
  /\ last' = Reply(op, h, user, "done")
  /\ UNCHANGED <<today, wired, pass, delivered, fails, watch, wizard, sessions>>

leader_acknowledge(h, user) ==
  IF ~Exists(h) THEN Answer("leader_ack", h, user, "not_found")
  ELSE IF ~is_user_authorized_for_action(user, hires[h], "leader_ack")
       THEN Answer("leader_ack", h, user, "unauthorized")
  ELSE IF hires[h].leader_status = "ACKNOWLEDGED"
       THEN Answer("leader_ack", h, user, "already")
  ELSE Apply("leader_ack", h, user,
             update_leader_status(hires[h], "ACKNOWLEDGED"),
             "LEADER_STATUS_CHANGED")

\* a docs_sent handler without the check for DOCS_SENT
docs_sent_again(h, user) ==
  IF ~Exists(h) THEN Answer("docs_sent", h, user, "not_found")
  ELSE IF ~is_user_authorized_for_action(user, hires[h], "docs_sent")
       THEN Answer("docs_sent", h, user, "unauthorized")
  ELSE Apply("docs_sent", h, user,
             update_legal_status(hires[h], "DOCS_SENT"),
             "LEGAL_STATUS_CHANGED")

docs_sent(h, user) ==
  IF ~Exists(h) THEN Answer("docs_sent", h, user, "not_found")
  ELSE IF ~is_user_authorized_for_action(user, hires[h], "docs_sent")
       THEN Answer("docs_sent", h, user, "unauthorized")
  ELSE IF hires[h].legal_status = "DOCS_SENT"
       THEN Answer("docs_sent", h, user, "already")
  ELSE Apply("docs_sent", h, user,
             update_legal_status(hires[h], "DOCS_SENT"),
             "LEGAL_STATUS_CHANGED")

access_granted(h, user) ==
  IF ~Exists(h) THEN Answer("access_granted", h, user, "not_found")
  ELSE IF ~is_user_authorized_for_action(user, hires[h], "access_granted")
       THEN Answer("access_granted", h, user, "unauthorized")
  ELSE IF hires[h].devops_status = "ACCESS_GRANTED"
       THEN Answer("access_granted", h, user, "already")
  ELSE Apply("access_granted", h, user,
             update_devops_status(hires[h], "ACCESS_GRANTED"),
             "DEVOPS_STATUS_CHANGED")

\* a complete handler without the authorization check
mark_complete_by_anyone(h, user) ==
  IF ~Exists(h) THEN Answer("complete", h, user, "not_found")
  ELSE Apply("complete", h, user, mark_completed(hires[h]), "COMPLETED")

mark_complete(h, user) ==
  IF ~Exists(h) THEN Answer("complete", h, user, "not_found")
  ELSE IF ~is_user_authorized_for_action(user, hires[h], "complete")
       THEN Answer("complete", h, user, "unauthorized")
  ELSE Apply("complete", h, user, mark_completed(hires[h]), "COMPLETED")

reopen_hire(h, user) ==
  IF ~Exists(h) THEN Answer("reopen", h, user, "not_found")
  ELSE IF ~is_user_authorized_for_action(user, hires[h], "reopen")
       THEN Answer("reopen", h, user, "unauthorized")
  ELSE Apply("reopen", h, user, reopen(hires[h]), "REOPENED")

\* a /note that takes a text of any length
cmd_note_any_length(h, user, note) ==
  LET Told(result) ==
        /\ last' = IF watch
                   THEN [Reply("add_note", h, user, result) EXCEPT !.arg = note]
                   ELSE NoLast
        /\ UNCHANGED <<today, wired, pass, delivered, fails, watch, wizard, sessions>>
  IN  IF ~Exists(h) THEN Told("not_found") /\ UNCHANGED <<hires, history>>
      ELSE IF ~(user.id = hires[h].creator_id \/ user.id \in admin_ids_list)
           THEN Told("unauthorized") /\ UNCHANGED <<hires, history>>
      ELSE /\ Len(history[h]) < HistBound
           /\ Commit(h, add_note(hires[h], note), "NOTE_ADDED")
           /\ Told("done")

\* handlers/commands.py cmd_note; the reply keeps the text that was typed
cmd_note(h, user, note) ==
  LET Told(result) ==
        /\ last' = IF watch
                   THEN [Reply("add_note", h, user, result) EXCEPT !.arg = note]
                   ELSE NoLast
        /\ UNCHANGED <<today, wired, pass, delivered, fails, watch, wizard, sessions>>
  IN  IF NoteLength(note) > 1000
      THEN Told("too_long") /\ UNCHANGED <<hires, history>>
      ELSE IF ~Exists(h) THEN Told("not_found") /\ UNCHANGED <<hires, history>>
      ELSE IF ~(user.id = hires[h].creator_id \/ user.id \in admin_ids_list)
           THEN Told("unauthorized") /\ UNCHANGED <<hires, history>>
      ELSE /\ Len(history[h]) < HistBound
           /\ Commit(h, add_note(hires[h], note), "NOTE_ADDED")
           /\ Told("done")

\* callbacks.py show_status: no authorization check
show_status(h, user) ==
  IF ~Exists(h) THEN Answer("show_status", h, user, "not_found")
  ELSE Answer("show_status", h, user, "shown")

\* callbacks.py add_note_prompt: the button only tells how to use /note
add_note_prompt(h, user) ==
  IF ~Exists(h) THEN Answer("add_note_prompt", h, user, "not_found")
  ELSE IF ~is_user_authorized_for_action(user, hires[h], "add_note")
       THEN Answer("add_note_prompt", h, user, "unauthorized")
  ELSE Answer("add_note_prompt", h, user, "prompt")

\* the clock
Tick ==
  /\ today < MaxDay
  /\ today' = today + 1
  /\ last' = NoLast
  /\ UNCHANGED <<hires, history, wired, pass, delivered, fails, watch, wizard, sessions>>

\* ---- the scheduler pass: shared bookkeeping ----

Range(q) == {q[i] : i \in 1..Len(q)}

\* every order in which a query can return the rows of S
Perms(S) ==
  {q \in [1..Cardinality(S) -> S] : \A i, j \in 1..Cardinality(S) : i # j => q[i] # q[j]}

\* the pass moves on to the next check of the same hire
NextPhase(p, ph) == [p EXCEPT !.phase = ph]

\* the pass moves on to the next hire of its list
NextHire(p) ==
  LET q == Tail(p.queue)
  IN  IF q = <<>> THEN IdlePass
      ELSE [ phase |-> "legal",
             queue |-> q,
             snap |-> [x \in Range(q) |-> p.snap[x]],
             failed |-> p.failed ]

\* the session's list of loaded rows at the start of a pass
StartPass(q) ==
  IF q = <<>> THEN IdlePass
  ELSE [ phase |-> "legal",
         queue |-> q,
         snap |-> [x \in Range(q) |-> hires[x]],
         failed |-> {} ]

\* results of one notification: the direct message, the chat message, the
\* flag commit ("none": not reached; "bad": TelegramBadRequest; "err": any
\* other exception)
Outcomes ==
  [ dm : {"none", "ok", "bad", "err"},
    chat : {"none", "ok", "bad", "err"},
    commit : {"none", "ok", "err"} ]

Failed(o) == o.dm \in {"bad", "err"} \/ o.chat \in {"bad", "err"} \/ o.commit = "err"

Reached(o) == o.dm = "ok" \/ o.chat = "ok"

\* what the pass observes of the hire h it is working on
Observe(op, h) ==
  [ NoLast EXCEPT !.op = op, !.hire = h, !.stored = hires[h].status,
                  !.view = pass.snap[h],
                  !.days = days_until(pass.snap[h].start_date) ]

\* a check that found nothing to do
Skip(op, h, p) ==
  /\ pass' = p
  /\ last' = [Observe(op, h) EXCEPT !.result = "skip"]
  /\ UNCHANGED <<hires, history, today, wired, delivered, fails, watch, wizard, sessions>>

\* a check whose mark_* commits all three one-shot flags
Attempt_marks_every_flag(op, h, o, flag, p) ==
  /\ Failed(o) => fails < MaxFail
  /\ fails' = IF Failed(o) THEN fails + 1 ELSE fails
  /\ delivered' = IF Reached(o)
                  THEN [delivered EXCEPT ![h][op] = TRUE]
                  ELSE delivered
  /\ hires' = IF o.commit = "ok"
              THEN [hires EXCEPT ![h].legal_reminded = TRUE,
                                 ![h].devops_reminded = TRUE,
                                 ![h].escalated = TRUE]
              ELSE hires
  /\ pass' = LET marked == IF o.commit = "ok" /\ h \in DOMAIN p.snap
                           THEN [p EXCEPT !.snap[h][flag] = TRUE]
                           ELSE p
             IN  IF Failed(o) /\ marked.phase # "idle"
                 THEN [marked EXCEPT !.failed = @ \cup {h}]
                 ELSE marked
  /\ last' = [Observe(op, h) EXCEPT !.result = "attempt", !.dm = o.dm,
                                    !.chat = o.chat, !.commit = o.commit]
  /\ UNCHANGED <<history, today, wired, watch, wizard, sessions>>

\* a check that sent its notification with outcome o; flag is the column that
\* mark_* commits when o.commit = "ok", p the position of the pass afterwards
Attempt(op, h, o, flag, p) ==
  /\ Failed(o) => fails < MaxFail
  /\ fails' = IF Failed(o) THEN fails + 1 ELSE fails
  /\ delivered' = IF Reached(o)
                  THEN [delivered EXCEPT ![h][op] = TRUE]
                  ELSE delivered
  /\ hires' = IF o.commit = "ok"
              THEN [hires EXCEPT ![h][flag] = TRUE]
              ELSE hires
  /\ pass' = LET marked == IF o.commit = "ok" /\ h \in DOMAIN p.snap
                           THEN [p EXCEPT !.snap[h][flag] = TRUE]
                           ELSE p
             IN  IF Failed(o) /\ marked.phase # "idle"
                 THEN [marked EXCEPT !.failed = @ \cup {h}]
                 ELSE marked
  /\ last' = [Observe(op, h) EXCEPT !.result = "attempt", !.dm = o.dm,
                                    !.chat = o.chat, !.commit = o.commit]
  /\ UNCHANGED <<history, today, wired, watch, wizard, sessions>>

\* ---- bot/scheduler/reminders.py ----

\* `HireStatus != HireStatus.COMPLETED` in get_hires_by_status compares the
\* enum class with one of its members: Python evaluates it to True before the
\* query is built, so the where clause holds for every row
ClassIsNotMember(row) == TRUE

\* HireService.get_hires_by_status(statuses=None, exclude_completed)
get_hires_by_status(exclude_completed) ==
  {h \in DOMAIN hires : exclude_completed => ClassIsNotMember(hires[h])}

\* ... order_by(Hire.start_date.asc())
OrderedByStartDate(q) ==
  \A i, j \in 1..Len(q) : i < j => hires[q[i]].start_date <= hires[q[j]].start_date

\* HireService.get_open_hires
get_open_hires == {q \in Perms(get_hires_by_status(TRUE)) : OrderedByStartDate(q)}

\* send_reminders: the query that starts a pass
send_reminders ==
  /\ wired = "reminders"
  /\ pass.phase = "idle"
  /\ \E q \in get_open_hires : pass' = StartPass(q)
  /\ last' = NoLast
  /\ UNCHANGED <<hires, history, today, wired, delivered, fails, watch, wizard, sessions>>

\* a legal check that marks the hire whether or not the send raised
check_legal_reminder_marks_anyway ==
  /\ wired = "reminders"
  /\ pass.phase = "legal"
  /\ LET h == Head(pass.queue)
         hire == pass.snap[h]
         days == days_until(hire.start_date)
         p == NextPhase(pass, "devops")
     IN  IF hire.legal_status = "DOCS_SENT" THEN Skip("legal", h, p)
         ELSE IF hire.legal_reminded THEN Skip("legal", h, p)
         ELSE IF ~(0 < days /\ days <= LEGAL_REMINDER_DAYS) THEN Skip("legal", h, p)
         ELSE \E o \in Outcomes :
                /\ o.dm = "none"
                /\ o.chat \in {"ok", "err"}
                /\ o.commit \in {"ok", "err"}
                /\ Attempt("legal", h, o, "legal_reminded", p)

\* _check_legal_reminder
check_legal_reminder ==
  /\ wired = "reminders"
  /\ pass.phase = "legal"
  /\ LET h == Head(pass.queue)
         hire == pass.snap[h]
         days == days_until(hire.start_date)
         p == NextPhase(pass, "devops")
     IN  IF hire.legal_status = "DOCS_SENT" THEN Skip("legal", h, p)
         ELSE IF hire.legal_reminded THEN Skip("legal", h, p)
         ELSE IF ~(0 < days /\ days <= LEGAL_REMINDER_DAYS) THEN Skip("legal", h, p)
         ELSE \E o \in Outcomes :
                /\ o.dm = "none"
                /\ o.chat \in {"ok", "err"}
                /\ o.commit \in (IF o.chat = "ok" THEN {"ok", "err"} ELSE {"none"})
                /\ Attempt("legal", h, o, "legal_reminded", p)

\* a devops check whose window also takes the start day itself
check_devops_reminder_on_start_day ==
  /\ wired = "reminders"
  /\ pass.phase = "devops"
  /\ LET h == Head(pass.queue)
         hire == pass.snap[h]
         days == days_until(hire.start_date)
         p == NextPhase(pass, "escalation")
     IN  IF hire.devops_status = "ACCESS_GRANTED" THEN Skip("devops", h, p)
         ELSE IF hire.devops_reminded THEN Skip("devops", h, p)
         ELSE IF ~(0 <= days /\ days <= DEVOPS_REMINDER_DAYS) THEN Skip("devops", h, p)
         ELSE \E o \in Outcomes :
                /\ o.dm = "none"
                /\ o.chat \in {"ok", "err"}
                /\ o.commit \in (IF o.chat = "ok" THEN {"ok", "err"} ELSE {"none"})
                /\ Attempt("devops", h, o, "devops_reminded", p)

\* _check_devops_reminder
check_devops_reminder ==
  /\ wired = "reminders"
  /\ pass.phase = "devops"
  /\ LET h == Head(pass.queue)
         hire == pass.snap[h]
         days == days_until(hire.start_date)
         p == NextPhase(pass, "escalation")
     IN  IF hire.devops_status = "ACCESS_GRANTED" THEN Skip("devops", h, p)
         ELSE IF hire.devops_reminded THEN Skip("devops", h, p)
         ELSE IF ~(0 < days /\ days <= DEVOPS_REMINDER_DAYS) THEN Skip("devops", h, p)
         ELSE \E o \in Outcomes :
                /\ o.dm = "none"
                /\ o.chat \in {"ok", "err"}
                /\ o.commit \in (IF o.chat = "ok" THEN {"ok", "err"} ELSE {"none"})
                /\ Attempt("devops", h, o, "devops_reminded", p)

\* an escalation check that sets the flag although the chat send raised
check_escalation_gives_up ==
  /\ wired = "reminders"
  /\ pass.phase = "escalation"
  /\ LET h == Head(pass.queue)
         hire == pass.snap[h]
         days == days_until(hire.start_date)
         hours_overdue == Abs(days) * 24
         has_pending == \/ hire.legal_status # "DOCS_SENT"
                        \/ hire.devops_status # "ACCESS_GRANTED"
         p == NextHire(pass)
     IN  IF hire.escalated THEN Skip("escalation", h, p)
         ELSE IF ~(days < 0) THEN Skip("escalation", h, p)
         ELSE IF ~(has_pending /\ hours_overdue >= ESCALATION_HOURS)
              THEN Skip("escalation", h, p)
         ELSE \E o \in Outcomes :
                /\ o.chat \in {"ok", "err"}
                /\ o.dm \in (IF o.chat = "ok" THEN {"ok", "err"} ELSE {"none"})
                /\ o.commit \in {"ok", "err"}
                /\ Attempt("escalation", h, o, "escalated", p)

\* _check_escalation
check_escalation ==
  /\ wired = "reminders"
  /\ pass.phase = "escalation"
  /\ LET h == Head(pass.queue)
         hire == pass.snap[h]
         days == days_until(hire.start_date)
         hours_overdue == Abs(days) * 24
         has_pending == \/ hire.legal_status # "DOCS_SENT"
                        \/ hire.devops_status # "ACCESS_GRANTED"
         p == NextHire(pass)
     IN  IF hire.escalated THEN Skip("escalation", h, p)
         ELSE IF ~(days < 0) THEN Skip("escalation", h, p)
         ELSE IF ~(has_pending /\ hours_overdue >= ESCALATION_HOURS)
              THEN Skip("escalation", h, p)
         ELSE \E o \in Outcomes :
                /\ o.chat \in {"ok", "err"}
                /\ o.dm \in (IF o.chat = "ok" THEN {"ok", "err"} ELSE {"none"})
                /\ o.commit \in (IF o.chat = "ok" THEN {"ok", "err"} ELSE {"none"})
                /\ Attempt("escalation", h, o, "escalated", p)

\* ---- bot/services/scheduler.py ----

\* HireService.get_hires_needing_reminders
get_hires_needing_reminders ==
  {h \in DOMAIN hires :
     /\ hires[h].status # "COMPLETED"
     /\ \/ hires[h].legal_status = "PENDING" /\ hires[h].legal_reminded = FALSE
        \/ hires[h].devops_status = "PENDING" /\ hires[h].devops_reminded = FALSE
        \/ hires[h].escalated = FALSE}

\* check_reminders: the query that starts a pass
check_reminders ==
  /\ wired = "services"
  /\ pass.phase = "idle"
  /\ \E q \in Perms(get_hires_needing_reminders) : pass' = StartPass(q)
  /\ last' = NoLast
  /\ UNCHANGED <<hires, history, today, wired, delivered, fails, watch, wizard, sessions>>

\* send_reminder: which outcomes the private and the chat message can have,
\* given the recipient's resolved id, and what it returns
send_reminder(o, user_id) ==
  /\ o.dm \in (IF user_id # None THEN {"ok", "bad", "err"} ELSE {"none"})
  /\ o.chat \in (IF o.dm = "err" THEN {"none"} ELSE {"ok", "bad", "err"})

send_reminder_success(o) == o.dm = "ok" \/ o.chat = "ok"

\* an exception that leaves process_hire_reminders
Raised(o) == o.dm = "err" \/ o.chat = "err" \/ o.commit = "err"

\* a loop without the try: the exception ends the pass
AfterException_propagates(p) == IdlePass

\* check_reminders, the except clause of its loop: the exception is logged
\* and the loop goes on with the next hire
AfterException(p) == NextHire(p)

\* a legal check that starts one day late: days below the threshold only
send_legal_reminder_below_threshold ==
  /\ wired = "services"
  /\ pass.phase = "legal"
  /\ LET h == Head(pass.queue)
         hire == pass.snap[h]
         days == days_until(hire.start_date)
         p == NextPhase(pass, "devops")
     IN  IF hire.status = "COMPLETED" THEN Skip("legal", h, NextHire(pass))
         ELSE IF ~(/\ hire.legal_status = "PENDING"
                   /\ ~hire.legal_reminded
                   /\ days < LEGAL_REMINDER_DAYS
                   /\ days > 0)
              THEN Skip("legal", h, p)
         ELSE \E o \in Outcomes :
                /\ send_reminder(o, hire.legal_id)
                /\ o.commit \in (IF ~Raised([o EXCEPT !.commit = "none"])
                                    /\ send_reminder_success(o)
                                 THEN {"ok", "err"} ELSE {"none"})
                /\ Attempt("legal", h, o, "legal_reminded",
                           IF Raised(o) THEN AfterException(pass) ELSE p)

\* process_hire_reminders, first check, with send_legal_reminder
send_legal_reminder ==
  /\ wired = "services"
  /\ pass.phase = "legal"
  /\ LET h == Head(pass.queue)
         hire == pass.snap[h]
         days == days_until(hire.start_date)
         p == NextPhase(pass, "devops")
     IN  IF hire.status = "COMPLETED" THEN Skip("legal", h, NextHire(pass))
         ELSE IF ~(/\ hire.legal_status = "PENDING"
                   /\ ~hire.legal_reminded
                   /\ days <= LEGAL_REMINDER_DAYS
                   /\ days > 0)
              THEN Skip("legal", h, p)
         ELSE \E o \in Outcomes :
                /\ send_reminder(o, hire.legal_id)
                /\ o.commit \in (IF ~Raised([o EXCEPT !.commit = "none"])
                                    /\ send_reminder_success(o)
                                 THEN {"ok", "err"} ELSE {"none"})
                /\ Attempt("legal", h, o, "legal_reminded",
                           IF Raised(o) THEN AfterException(pass) ELSE p)

\* process_hire_reminders, second check, with send_devops_reminder
send_devops_reminder ==
  /\ wired = "services"
  /\ pass.phase = "devops"
  /\ LET h == Head(pass.queue)
         hire == pass.snap[h]
         days == days_until(hire.start_date)
         p == NextPhase(pass, "escalation")
     IN  IF ~(/\ hire.devops_status = "PENDING"
              /\ ~hire.devops_reminded
              /\ days <= DEVOPS_REMINDER_DAYS
              /\ days > 0)
         THEN Skip("devops", h, p)
         ELSE \E o \in Outcomes :
                /\ send_reminder(o, hire.devops_id)
                /\ o.commit \in (IF ~Raised([o EXCEPT !.commit = "none"])
                                    /\ send_reminder_success(o)
                                 THEN {"ok", "err"} ELSE {"none"})
                /\ Attempt("devops", h, o, "devops_reminded",
                           IF Raised(o) THEN AfterException(pass) ELSE p)

\* an escalation that also counts a pending leader acknowledgement
send_escalation_counts_leader ==
  /\ wired = "services"
  /\ pass.phase = "escalation"
  /\ LET h == Head(pass.queue)
         hire == pass.snap[h]
         days == days_until(hire.start_date)
         has_pending == \/ hire.legal_status = "PENDING"
                        \/ hire.devops_status = "PENDING"
                        \/ hire.leader_status = "PENDING"
         overdue_hours == Abs(days) * 24
         p == NextHire(pass)
     IN  IF ~(~hire.escalated /\ days < 0) THEN Skip("escalation", h, p)
         ELSE IF ~has_pending THEN Skip("escalation", h, p)
         ELSE IF ~(overdue_hours >= ESCALATION_HOURS) THEN Skip("escalation", h, p)
         ELSE \E o \in Outcomes :
                /\ o.dm \in (IF hire.creator_id # None
                             THEN {"ok", "bad", "err"} ELSE {"none"})
                /\ o.chat \in (IF o.dm = "err" THEN {"none"} ELSE {"ok", "bad", "err"})
                /\ o.commit \in (IF ~Raised([o EXCEPT !.commit = "none"])
                                 THEN {"ok", "err"} ELSE {"none"})
                /\ Attempt("escalation", h, o, "escalated",
                           IF Raised(o) THEN AfterException(pass) ELSE p)

\* process_hire_reminders, third check, with send_escalation
send_escalation ==
  /\ wired = "services"
  /\ pass.phase = "escalation"
  /\ LET h == Head(pass.queue)
         hire == pass.snap[h]
         days == days_until(hire.start_date)
         has_pending == \/ hire.legal_status = "PENDING"
                        \/ hire.devops_status = "PENDING"
         overdue_hours == Abs(days) * 24
         p == NextHire(pass)
     IN  IF ~(~hire.escalated /\ days < 0) THEN Skip("escalation", h, p)
         ELSE IF ~has_pending THEN Skip("escalation", h, p)
         ELSE IF ~(overdue_hours >= ESCALATION_HOURS) THEN Skip("escalation", h, p)
         ELSE \E o \in Outcomes :
                /\ o.dm \in (IF hire.creator_id # None
                             THEN {"ok", "bad", "err"} ELSE {"none"})
                /\ o.chat \in (IF o.dm = "err" THEN {"none"} ELSE {"ok", "bad", "err"})
                /\ o.commit \in (IF ~Raised([o EXCEPT !.commit = "none"])
                                 THEN {"ok", "err"} ELSE {"none"})
                /\ Attempt("escalation", h, o, "escalated",
                           IF Raised(o) THEN AfterException(pass) ELSE p)

\* ---- the program ----

\* the runs that follow a hire from its creation give it one note at most
NoNoteYet(h) == Exists(h) => hires[h].notes = <<>>

\* the inline-button and command handlers, on the one hire of Next
Handlers ==
  \/ \E h \in SoloIds, u \in Users : leader_acknowledge(h, u)
  \/ \E h \in SoloIds, u \in Users : docs_sent(h, u)
  \/ \E h \in SoloIds, u \in Users : access_granted(h, u)
  \/ \E h \in SoloIds, u \in Users : mark_complete(h, u)
  \/ \E h \in SoloIds, u \in Users : reopen_hire(h, u)
  \/ \E h \in SoloIds, u \in Users, note \in NoteTexts :
       NoNoteYet(h) /\ cmd_note(h, u, note)

\* the periodic job of whichever scheduler module is wired
Scheduler ==
  \/ send_reminders
  \/ check_legal_reminder
  \/ check_devops_reminder
  \/ check_escalation
  \/ check_reminders
  \/ send_legal_reminder
  \/ send_devops_reminder
  \/ send_escalation

\* one hire, its handlers, the clock and the passes
Next ==
  \/ \E h \in SoloIds, start \in StartDates, u \in Users : create_hire(h, start, u.id)
  \/ Handlers
  \/ Tick
  \/ Scheduler

Spec == Init /\ [][Next]_vars

\* several hires, the clock and the passes
NextPass ==
  \/ \E h \in HireIds, start \in StartDates, u \in Users : create_hire(h, start, u.id)
  \/ Tick
  \/ Scheduler

SpecPass == Init /\ [][NextPass]_vars

\* the handlers alone, their replies kept
InitDesk == Boot /\ watch = TRUE /\ wired = "services"

\* one hire and a code that resolves to no hire, every handler, every account
NextDesk ==
  \/ \E h \in SoloIds, start \in StartDates, u \in Actors : create_hire(h, start, u.id)
  \/ \E h \in HireIds, u \in Actors : leader_acknowledge(h, u)
  \/ \E h \in HireIds, u \in Actors : docs_sent(h, u)
  \/ \E h \in HireIds, u \in Actors : access_granted(h, u)
  \/ \E h \in HireIds, u \in Actors : mark_complete(h, u)
  \/ \E h \in HireIds, u \in Actors : reopen_hire(h, u)
  \/ \E h \in HireIds, u \in Actors : show_status(h, u)
  \/ \E h \in HireIds, u \in Actors : add_note_prompt(h, u)
  \/ \E h \in HireIds, u \in Actors, note \in TypedNotes :
       NoNoteYet(h) /\ cmd_note(h, u, note)

SpecDesk == InitDesk /\ [][NextDesk]_vars

\* ---- HireService called directly, once, on a stored row ----

\* models.py: the values of the four status columns
HireStatus == {"CREATED", "IN_PROGRESS", "READY_FOR_DAY1", "COMPLETED"}

LeaderStatus == {"PENDING", "ACKNOWLEDGED"}

LegalStatus == {"PENDING", "DOCS_SENT"}

DevOpsStatus == {"PENDING", "ACCESS_GRANTED"}

AllPending(row) ==
  /\ row.leader_status = "PENDING"
  /\ row.legal_status = "PENDING"
  /\ row.devops_status = "PENDING"

AllDone(row) ==
  /\ row.leader_status = "ACKNOWLEDGED"
  /\ row.legal_status = "DOCS_SENT"
  /\ row.devops_status = "ACCESS_GRANTED"

\* the rows the handlers and the passes can leave in the table: CREATED only
\* with nothing done, READY_FOR_DAY1 only with everything done
StoredRows ==
  { row \in { [NewHire(1, 1, notes) EXCEPT
                 !.status = st, !.leader_status = ld, !.legal_status = lg,
                 !.devops_status = dv, !.legal_reminded = lr,
                 !.devops_reminded = dr, !.escalated = es] :
               st \in HireStatus, ld \in LeaderStatus, lg \in LegalStatus,
               dv \in DevOpsStatus, lr \in BOOLEAN, dr \in BOOLEAN,
               es \in BOOLEAN, notes \in {<<>>} \cup {<<n>> : n \in NoteTexts} } :
      /\ row.status = "CREATED" => AllPending(row)
      /\ row.status = "READY_FOR_DAY1" => AllDone(row) }

\* a history that leaves the row: the sub-status changes, the note, then
\* the completion and the reopening where the overall status needs them
StoredLog(row) ==
  <<"CREATED">>
  \o (IF row.leader_status # "PENDING" THEN <<"LEADER_STATUS_CHANGED">> ELSE <<>>)
  \o (IF row.legal_status # "PENDING" THEN <<"LEGAL_STATUS_CHANGED">> ELSE <<>>)
  \o (IF row.devops_status # "PENDING" THEN <<"DEVOPS_STATUS_CHANGED">> ELSE <<>>)
  \o (IF row.notes # <<>> THEN <<"NOTE_ADDED">> ELSE <<>>)
  \o (CASE row.status = "COMPLETED" -> <<"COMPLETED">>
         [] row.status = "IN_PROGRESS" /\ (AllPending(row) \/ AllDone(row)) ->
              <<"COMPLETED", "REOPENED">>
         [] OTHER -> <<>>)

\* one stored hire, past its start date, and no call made yet
InitService ==
  \E row \in StoredRows :
    /\ hires = [h \in SoloIds |-> row]
    /\ history = [h \in SoloIds |-> StoredLog(row)]
    /\ today = MaxDay
    /\ wired = "services"
    /\ pass = IdlePass
    /\ delivered = [h \in HireIds |->
                      IF h \in SoloIds
                      THEN [k \in Kinds |->
                              CASE k = "legal" -> row.legal_reminded
                                [] k = "devops" -> row.devops_reminded
                                [] k = "escalation" -> row.escalated]
                      ELSE [k \in Kinds |-> FALSE]]
    /\ fails = 0
    /\ watch = TRUE
    /\ sessions = NoSessions
    /\ wizard = NoWizard
    /\ last = NoLast

\* a method of HireService that returns Optional[Hire]: None when get_hire
\* finds no row, else the row it committed with its history entry
Returning(op, h, row, tag) ==
  /\ last.op = "none"
  /\ IF ~Exists(h)
     THEN /\ last' = [NoLast EXCEPT !.op = op, !.hire = h, !.result = "None"]
          /\ UNCHANGED <<hires, history>>
     ELSE /\ Commit(h, row, tag)
          /\ last' = [NoLast EXCEPT !.op = op, !.hire = h, !.result = "Hire",
                                    !.view = hires[h]]
  /\ UNCHANGED <<today, wired, pass, delivered, fails, watch, wizard, sessions>>

\* a method of HireService declared -> None: it commits the row when
\* get_hire finds one and returns nothing either way
Silent(op, h, row) ==
  /\ last.op = "none"
  /\ IF ~Exists(h)
     THEN /\ last' = [NoLast EXCEPT !.op = op, !.hire = h, !.result = "None"]
          /\ UNCHANGED hires
     ELSE /\ hires' = [hires EXCEPT ![h] = row]
          /\ last' = [NoLast EXCEPT !.op = op, !.hire = h, !.result = "None",
                                    !.view = hires[h]]
  /\ UNCHANGED <<history, today, wired, pass, delivered, fails, watch, wizard, sessions>>

\* the row get_hire returns, or any row when there is none (it is not used)
RowOf(h) == IF Exists(h) THEN hires[h] ELSE NewHire(1, 1, <<>>)

HireService_update_leader_status(h, status) ==
  Returning("update_leader_status", h,
            update_leader_status(RowOf(h), status), "LEADER_STATUS_CHANGED")

HireService_update_legal_status(h, status) ==
  Returning("update_legal_status", h,
            update_legal_status(RowOf(h), status), "LEGAL_STATUS_CHANGED")

HireService_update_devops_status(h, status) ==
  Returning("update_devops_status", h,
            update_devops_status(RowOf(h), status), "DEVOPS_STATUS_CHANGED")

HireService_mark_completed(h) ==
  Returning("mark_completed", h, mark_completed(RowOf(h)), "COMPLETED")

HireService_reopen(h) ==
  Returning("reopen", h, reopen(RowOf(h)), "REOPENED")

HireService_add_note(h, note) ==
  Returning("add_note", h, add_note(RowOf(h), note), "NOTE_ADDED")

HireService_mark_legal_reminded(h) ==
  Silent("mark_legal_reminded", h, mark_legal_reminded(RowOf(h)))

HireService_mark_devops_reminded(h) ==
  Silent("mark_devops_reminded", h, mark_devops_reminded(RowOf(h)))

HireService_mark_escalated(h) ==
  Silent("mark_escalated", h, mark_escalated(RowOf(h)))

\* one call of a mutating method, with a code that resolves or one that does not
NextService ==
  \/ \E h \in HireIds, st \in LeaderStatus : HireService_update_leader_status(h, st)
  \/ \E h \in HireIds, st \in LegalStatus : HireService_update_legal_status(h, st)
  \/ \E h \in HireIds, st \in DevOpsStatus : HireService_update_devops_status(h, st)
  \/ \E h \in HireIds : HireService_mark_completed(h)
  \/ \E h \in HireIds : HireService_reopen(h)
  \/ \E h \in HireIds, note \in NoteTexts : HireService_add_note(h, note)
  \/ \E h \in HireIds : HireService_mark_legal_reminded(h)
  \/ \E h \in HireIds : HireService_mark_devops_reminded(h)
  \/ \E h \in HireIds : HireService_mark_escalated(h)

SpecService == InitService /\ [][NextService]_vars

\* one /note, by any account, on any stored row or with an unknown code
NextNote ==
  \E h \in HireIds, u \in Actors, note \in TypedNotes :
    /\ last.op = "none"
    /\ cmd_note(h, u, note)

SpecNote == InitService /\ [][NextNote]_vars

\* ---- units of work that overlap: each call is a load and a commit ----

\* the methods of HireService that return Optional[Hire], and the three that
\* write a one-shot flag
ReturningCalls ==
  {"update_leader_status", "update_legal_status", "update_devops_status",
   "mark_completed", "reopen", "add_note"}

FlagCalls == {"mark_legal_reminded", "mark_devops_reminded", "mark_escalated"}

\* the arguments a call can be given besides the hire code
CallArgs(op) ==
  CASE op = "update_leader_status" -> LeaderStatus
    [] op = "update_legal_status" -> LegalStatus
    [] op = "update_devops_status" -> DevOpsStatus
    [] op = "add_note" -> NoteTexts
    [] OTHER -> {"none"}

\* the object of the session after the assignments of the method, before the
\* commit
CallRow(op, arg, hire) ==
  CASE op = "update_leader_status" -> update_leader_status(hire, arg)
    [] op = "update_legal_status" -> update_legal_status(hire, arg)
    [] op = "update_devops_status" -> update_devops_status(hire, arg)
    [] op = "mark_completed" -> mark_completed(hire)
    [] op = "reopen" -> reopen(hire)
    [] op = "add_note" -> add_note(hire, arg)
    [] op = "mark_legal_reminded" -> mark_legal_reminded(hire)
    [] op = "mark_devops_reminded" -> mark_devops_reminded(hire)
    [] op = "mark_escalated" -> mark_escalated(hire)

\* the StatusHistory action the method adds to its session
ActionTag(op) ==
  CASE op = "update_leader_status" -> "LEADER_STATUS_CHANGED"
    [] op = "update_legal_status" -> "LEGAL_STATUS_CHANGED"
    [] op = "update_devops_status" -> "DEVOPS_STATUS_CHANGED"
    [] op = "mark_completed" -> "COMPLETED"
    [] op = "reopen" -> "REOPENED"
    [] op = "add_note" -> "NOTE_ADDED"

\* a commit that writes every column of the session's object
Flush_whole_row(h, loaded, row) == [hires EXCEPT ![h] = row]

\* session.commit() of a changed Hire: the UPDATE sets the columns whose value
\* in the session's object differs from the value the session loaded
Flush(h, loaded, row) ==
  [hires EXCEPT ![h] = [c \in DOMAIN row |->
                          IF row[c] # loaded[c] THEN row[c] ELSE hires[h][c]]]

\* the session's record when its call is over
Done(s, result) ==
  sessions' = [sessions EXCEPT ![s].phase = "done", ![s].result = result]

\* get_hire at the start of a method of HireService
Load(s, op, h, arg) ==
  /\ sessions[s].phase = "idle"
  /\ sessions' = [sessions EXCEPT ![s] =
                    [ phase |-> "loaded", op |-> op, hire |-> h, arg |-> arg,
                      found |-> Exists(h), loaded |-> RowOf(h),
                      result |-> "none" ]]
  /\ UNCHANGED <<hires, history, today, wired, pass, delivered, fails, watch, wizard, last>>

\* the rest of a method that returns Optional[Hire]: None without a row, else
\* the assignments, the history entry and the commit, which can raise
ReturnHire(s, commit) ==
  LET c == sessions[s]
  IN  /\ c.phase = "loaded"
      /\ c.op \in ReturningCalls
      /\ IF ~c.found
         THEN /\ commit = "none"
              /\ Done(s, "None")
              /\ UNCHANGED <<hires, history>>
         ELSE IF commit = "err"
              THEN /\ Done(s, "raised")
                   /\ UNCHANGED <<hires, history>>
         ELSE /\ commit = "ok"
              /\ hires' = Flush(c.hire, c.loaded, CallRow(c.op, c.arg, c.loaded))
              /\ history' = [history EXCEPT ![c.hire] = Append(@, ActionTag(c.op))]
              /\ Done(s, "Hire")
      /\ UNCHANGED <<today, wired, pass, delivered, fails, watch, wizard, last>>

\* the rest of mark_legal_reminded / mark_devops_reminded / mark_escalated
ReturnNothing(s, commit) ==
  LET c == sessions[s]
  IN  /\ c.phase = "loaded"
      /\ c.op \in FlagCalls
      /\ IF ~c.found
         THEN /\ commit = "none"
              /\ Done(s, "None")
              /\ UNCHANGED hires
         ELSE IF commit = "err"
              THEN /\ Done(s, "raised")
                   /\ UNCHANGED hires
         ELSE /\ commit = "ok"
              /\ hires' = Flush(c.hire, c.loaded, CallRow(c.op, c.arg, c.loaded))
              /\ Done(s, "None")
      /\ UNCHANGED <<history, today, wired, pass, delivered, fails, watch, wizard, last>>

\* process_hire_reminders: whether the loaded hire is given the notification
\* of kind k
NeedsNotification(hire, k) ==
  LET days == days_until(hire.start_date)
  IN  /\ hire.status # "COMPLETED"
      /\ CASE k = "legal" ->
                /\ hire.legal_status = "PENDING"
                /\ ~hire.legal_reminded
                /\ days <= LEGAL_REMINDER_DAYS
                /\ days > 0
            [] k = "devops" ->
                /\ hire.devops_status = "PENDING"
                /\ ~hire.devops_reminded
                /\ days <= DEVOPS_REMINDER_DAYS
                /\ days > 0
            [] k = "escalation" ->
                /\ ~hire.escalated
                /\ days < 0
                /\ hire.legal_status = "PENDING" \/ hire.devops_status = "PENDING"
                /\ Abs(days) * 24 >= ESCALATION_HOURS

\* check_reminders in a session of its own: the query has loaded hire h
LoadForPass(s, h, k) ==
  /\ h \in get_hires_needing_reminders
  /\ Load(s, "process_hire_reminders", h, k)

\* process_hire_reminders on the loaded hire, for one kind: the message goes
\* out and mark_* commits the flag
process_hire_reminders(s) ==
  LET c == sessions[s]
  IN  /\ c.phase = "loaded"
      /\ c.op = "process_hire_reminders"
      /\ IF NeedsNotification(c.loaded, c.arg)
         THEN /\ delivered' = [delivered EXCEPT ![c.hire][c.arg] = TRUE]
              /\ hires' = Flush(c.hire, c.loaded,
                                [c.loaded EXCEPT ![FlagOf(c.arg)] = TRUE])
              /\ Done(s, "sent")
         ELSE /\ Done(s, "skip")
              /\ UNCHANGED <<hires, delivered>>
      /\ UNCHANGED <<history, today, wired, pass, fails, watch, wizard, last>>

\* an INSERT that replaces the row of the same code
Insert_or_replace(s, h, start, creator) ==
  /\ hires' = [x \in DOMAIN hires \cup {h} |->
                 IF x = h THEN NewHire(start, creator, <<>>) ELSE hires[x]]
  /\ history' = [x \in DOMAIN hires \cup {h} |->
                 IF x = h THEN <<"CREATED">> ELSE history[x]]
  /\ Done(s, "Hire")

\* the commit of create_hire: hire_id is the primary key of table hires, so
\* the INSERT of a code that is taken raises and stores nothing
Insert(s, h, start, creator) ==
  IF Exists(h)
  THEN /\ Done(s, "raised")
       /\ UNCHANGED <<hires, history>>
  ELSE /\ hires' = [x \in DOMAIN hires \cup {h} |->
                      IF x = h THEN NewHire(start, creator, <<>>) ELSE hires[x]]
       /\ history' = [x \in DOMAIN hires \cup {h} |->
                      IF x = h THEN <<"CREATED">> ELSE history[x]]
       /\ Done(s, "Hire")

\* create_hire, the loop: a code generate_hire_id drew that get_hire finds free
DrawCode(s, h, start) ==
  /\ ~Exists(h)
  /\ Load(s, "create_hire", h, start)

\* create_hire, the rest: the row, its CREATED entry and the commit
StoreHire(s) ==
  LET c == sessions[s]
  IN  /\ c.phase = "loaded"
      /\ c.op = "create_hire"
      /\ Insert(s, c.hire, c.arg, 1)
      /\ UNCHANGED <<today, wired, pass, delivered, fails, watch, wizard, last>>

\* the rows a hire can have when two units of work start on it
RaceRows ==
  {row \in StoredRows :
     /\ row.notes = <<>>
     /\ ~row.devops_reminded
     /\ ~row.escalated}

\* one stored hire, one day before or after its start date
InitRace ==
  \E row \in RaceRows :
    /\ hires = [h \in SoloIds |-> row]
    /\ history = [h \in SoloIds |-> StoredLog(row)]
    /\ today \in {0, MaxDay}
    /\ wired = "services"
    /\ pass = IdlePass
    /\ delivered = [h \in HireIds |->
                      [k \in Kinds |-> h \in SoloIds /\ k = "legal" /\ row.legal_reminded]]
    /\ fails = 0
    /\ watch = TRUE
    /\ sessions = NoSessions
    /\ wizard = NoWizard
    /\ last = NoLast

\* two sessions, each with one call: a method of HireService on the stored
\* hire, the scheduler's check of it, or the creation of another hire
NextRace ==
  \/ \E s \in SessionIds, h \in SoloIds, op \in ReturningCalls \cup FlagCalls :
       \E arg \in CallArgs(op) : Load(s, op, h, arg)
  \/ \E s \in SessionIds, commit \in {"none", "ok", "err"} : ReturnHire(s, commit)
  \/ \E s \in SessionIds, commit \in {"none", "ok", "err"} : ReturnNothing(s, commit)
  \/ \E s \in SessionIds, h \in SoloIds, k \in Kinds : LoadForPass(s, h, k)
  \/ \E s \in SessionIds : process_hire_reminders(s)
  \/ \E s \in SessionIds, h \in HireIds \ SoloIds, start \in StartDates : DrawCode(s, h, start)
  \/ \E s \in SessionIds : StoreHire(s)

SpecRace == InitRace /\ [][NextRace]_vars

\* ---- two presses of the sub-status buttons that overlap ----

PressOps == {"leader_ack", "docs_sent", "access_granted"}

\* the buttons of a card that write to the store
ButtonOps == PressOps \cup {"complete", "reopen"}

\* the service call of a button's handler, with the value it passes
PressCall(op) ==
  CASE op = "leader_ack" -> "update_leader_status"
    [] op = "docs_sent" -> "update_legal_status"
    [] op = "access_granted" -> "update_devops_status"
    [] op = "complete" -> "mark_completed"
    [] op = "reopen" -> "reopen"

PressValue(op) ==
  CASE op = "leader_ack" -> "ACKNOWLEDGED"
    [] op = "docs_sent" -> "DOCS_SENT"
    [] op = "access_granted" -> "ACCESS_GRANTED"
    [] OTHER -> "none"

\* the column a sub-status handler looks at and writes
PressColumn(op) ==
  CASE op = "leader_ack" -> "leader_status"
    [] op = "docs_sent" -> "legal_status"
    [] op = "access_granted" -> "devops_status"

\* a button's handler, up to its first get_hire: the session has the hire as
\* the store has it now
Press(s, op, h, user) ==
  /\ op \in ButtonOps
  /\ Load(s, op, h, user)

\* handlers that update whatever the hire they loaded shows
PressAnswered_without_done_check(s) ==
  LET c == sessions[s]
  IN  /\ c.phase = "loaded"
      /\ c.op \in ButtonOps
      /\ UNCHANGED <<today, wired, pass, delivered, fails, watch, wizard, last>>
      /\ IF ~c.found THEN Done(s, "not_found") /\ UNCHANGED <<hires, history>>
         ELSE IF ~is_user_authorized_for_action(c.arg, c.loaded, c.op)
              THEN Done(s, "unauthorized") /\ UNCHANGED <<hires, history>>
         ELSE /\ hires' = Flush(c.hire, c.loaded,
                                CallRow(PressCall(c.op), PressValue(c.op), c.loaded))
              /\ history' = [history EXCEPT
                               ![c.hire] = Append(@, ActionTag(PressCall(c.op)))]
              /\ Done(s, "done")

\* the rest of leader_acknowledge / docs_sent / access_granted / mark_complete
\* / reopen_hire: the checks on the hire the session loaded, then the service
\* call on the same object (its get_hire finds the object in the session),
\* the history entry and the commit
PressAnswered(s) ==
  LET c == sessions[s]
  IN  /\ c.phase = "loaded"
      /\ c.op \in ButtonOps
      /\ UNCHANGED <<today, wired, pass, delivered, fails, watch, wizard, last>>
      /\ IF ~c.found THEN Done(s, "not_found") /\ UNCHANGED <<hires, history>>
         ELSE IF ~is_user_authorized_for_action(c.arg, c.loaded, c.op)
              THEN Done(s, "unauthorized") /\ UNCHANGED <<hires, history>>
         ELSE IF c.op \in PressOps /\ c.loaded[PressColumn(c.op)] = PressValue(c.op)
              THEN Done(s, "already") /\ UNCHANGED <<hires, history>>
         ELSE /\ hires' = Flush(c.hire, c.loaded,
                                CallRow(PressCall(c.op), PressValue(c.op), c.loaded))
              /\ history' = [history EXCEPT
                               ![c.hire] = Append(@, ActionTag(PressCall(c.op)))]
              /\ Done(s, "done")

\* two users press a button each, on the stored hire or on a code that is not
\* in the store
NextPress ==
  \/ \E s \in SessionIds, op \in ButtonOps, h \in HireIds, user \in Actors :
       Press(s, op, h, user)
  \/ \E s \in SessionIds : PressAnswered(s)

SpecPress == InitRace /\ [][NextPress]_vars

\* ---- shutdown (main.py on_shutdown) ----

\* on_shutdown: shutdown_scheduler() returns without awaiting the job, then
\* the engine is disposed and main returns; a pass in flight is cancelled at
\* the await it is suspended in: before the message of its current check
\* went out, or after it went out and before mark_* committed the flag
on_shutdown ==
  /\ wired = "services"
  /\ wired' = "stopped"
  /\ pass' = IdlePass
  /\ IF pass.phase = "idle"
     THEN /\ last' = [NoLast EXCEPT !.op = "on_shutdown", !.result = "idle"]
          /\ UNCHANGED delivered
     ELSE LET h == Head(pass.queue)
              k == pass.phase
          IN  \E sent \in BOOLEAN :
                /\ sent => NeedsNotification(pass.snap[h], k)
                /\ delivered' = IF sent
                                THEN [delivered EXCEPT ![h][k] = TRUE]
                                ELSE delivered
                /\ last' = [NoLast EXCEPT
                             !.op = "on_shutdown", !.hire = h,
                             !.result = IF sent THEN "cancelled_after_send"
                                        ELSE "cancelled"]
  /\ UNCHANGED <<hires, history, today, fails, watch, wizard, sessions>>

\* the periodic job of bot/services/scheduler.py, the module main.py imports
SchedulerServices ==
  \/ check_reminders
  \/ send_legal_reminder
  \/ send_devops_reminder
  \/ send_escalation

InitStop == Init /\ wired = "services"

\* hires, the clock, the passes of check_reminders, and the shutdown
NextStop ==
  \/ \E h \in HireIds, start \in StartDates, u \in Users : create_hire(h, start, u.id)
  \/ Tick
  \/ SchedulerServices
  \/ on_shutdown

SpecStop == InitStop /\ [][NextStop]_vars

\* ---- the /newhire wizard (bot/handlers/newhire.py) ----

\* how many runs of the wizard a user is followed through
MaxRuns == 2

\* NewHireStates, in the order the handlers set them
WizardStates ==
  <<"full_name", "start_date", "role", "leader", "legal", "devops",
    "docs_email", "access_checklist", "notes", "confirm">>

\* the texts a user types: a name, one letter, a dash, a handle, an address,
\* and three dates (yesterday, and the two start dates)
Typed == {"Ann Lee", "A", "-", "lead_a", "a@b.co", "d-1", "d1", "d4"}

\* len(message.text.strip())
TextLength(text) ==
  CASE text = "Ann Lee" -> 7
    [] text \in {"A", "-"} -> 1
    [] text \in {"lead_a", "a@b.co"} -> 6
    [] OTHER -> 10

\* parse_date: the day of a text in format YYYY-MM-DD, else None
parse_date(text) ==
  CASE text = "d-1" -> 0 - 1
    [] text = "d1" -> 1
    [] text = "d4" -> 4
    [] OTHER -> None

\* parse_username: a letter followed by 4 to 31 letters, digits or underscores
parse_username(text) == IF text = "lead_a" THEN text ELSE ""

\* validate_email
validate_email(text) == text = "a@b.co"

\* settings.DEFAULT_LEGAL_USERNAME / DEFAULT_DEVOPS_USERNAME and the stored
\* defaults: none configured
default_username == ""

\* the items of get_checklist_keyboard that are followed
ChecklistItems == {"email", "github"}

\* a handler of the wizard has answered user: what is kept of it, and the FSM
\* context w it leaves
Handled(op, user, text, result, w) ==
  /\ wizard' = w
  /\ last' = [NoLast EXCEPT !.op = op, !.user = user.id, !.arg = text,
                            !.result = result]
  /\ UNCHANGED <<hires, history, today, wired, pass, delivered, fails, watch, sessions>>

\* state.set_state(st)
SetState(user, st) == [wizard EXCEPT ![user.id].state = st]

\* a /newhire that starts a run for whoever sends it
cmd_newhire_for_anyone(user) ==
  /\ wizard[user.id].run < MaxRuns
  /\ Handled("cmd_newhire", user, "/newhire", "started",
             [wizard EXCEPT ![user.id] =
                [IdleWizard EXCEPT !.state = "full_name", !.run = wizard[user.id].run + 1]])

cmd_newhire(user) ==
  IF user.id \notin allowed_creators_list
  THEN Handled("cmd_newhire", user, "/newhire", "denied", wizard)
  ELSE /\ wizard[user.id].run < MaxRuns
       /\ Handled("cmd_newhire", user, "/newhire", "started",
                  [wizard EXCEPT ![user.id] =
                     [IdleWizard EXCEPT !.state = "full_name",
                                        !.run = wizard[user.id].run + 1]])

\* state.clear() keeps nothing of the run; the count of runs is not part of
\* the FSM context
Cleared(user_id) ==
  [wizard EXCEPT ![user_id] = [IdleWizard EXCEPT !.run = wizard[user_id].run]]

\* cancel_wizard has no state filter: the button clears whatever state the
\* user is in
cancel_wizard(user) ==
  /\ user.id \in DOMAIN wizard
  /\ Handled("cancel_wizard", user, "cancel", "cancelled", Cleared(user.id))

process_full_name(user, text) ==
  /\ wizard[user.id].state = "full_name"
  /\ IF TextLength(text) < 2 \/ TextLength(text) > 255
     THEN Handled("process_full_name", user, text, "refused", wizard)
     ELSE Handled("process_full_name", user, text, "accepted",
                  SetState(user, "start_date"))

process_start_date(user, text) ==
  /\ wizard[user.id].state = "start_date"
  /\ IF parse_date(text) = None \/ parse_date(text) < today
     THEN Handled("process_start_date", user, text, "refused", wizard)
     ELSE Handled("process_start_date", user, text, "accepted",
                  [wizard EXCEPT ![user.id].state = "role",
                                 ![user.id].start = parse_date(text)])

process_role(user, text) ==
  /\ wizard[user.id].state = "role"
  /\ IF TextLength(text) < 2 \/ TextLength(text) > 255
     THEN Handled("process_role", user, text, "refused", wizard)
     ELSE Handled("process_role", user, text, "accepted", SetState(user, "leader"))

process_leader(user, text) ==
  /\ wizard[user.id].state = "leader"
  /\ IF parse_username(text) = ""
     THEN Handled("process_leader", user, text, "refused", wizard)
     ELSE Handled("process_leader", user, text, "accepted", SetState(user, "legal"))

process_legal(user, text) ==
  /\ wizard[user.id].state = "legal"
  /\ LET username == IF text = "-" THEN default_username ELSE parse_username(text)
     IN  IF username = ""
         THEN Handled("process_legal", user, text, "refused", wizard)
         ELSE Handled("process_legal", user, text, "accepted", SetState(user, "devops"))

process_devops(user, text) ==
  /\ wizard[user.id].state = "devops"
  /\ LET username == IF text = "-" THEN default_username ELSE parse_username(text)
     IN  IF username = ""
         THEN Handled("process_devops", user, text, "refused", wizard)
         ELSE Handled("process_devops", user, text, "accepted",
                      SetState(user, "docs_email"))

process_docs_email(user, text) ==
  /\ wizard[user.id].state = "docs_email"
  /\ IF ~validate_email(text)
     THEN Handled("process_docs_email", user, text, "refused", wizard)
     ELSE Handled("process_docs_email", user, text, "accepted",
                  SetState(user, "access_checklist"))

\* the buttons of the checklist: an item is toggled, "done" goes on when an
\* item is selected
process_checklist(user, action) ==
  /\ wizard[user.id].state = "access_checklist"
  /\ LET checklist == wizard[user.id].checklist
     IN  IF action = "done"
         THEN IF checklist = {}
              THEN Handled("process_checklist", user, action, "refused", wizard)
              ELSE Handled("process_checklist", user, action, "accepted",
                           SetState(user, "notes"))
         ELSE Handled("process_checklist", user, action, "toggled",
                      [wizard EXCEPT ![user.id].checklist =
                         IF action \in checklist THEN checklist \ {action}
                         ELSE checklist \cup {action}])

process_notes(user, text) ==
  /\ wizard[user.id].state = "notes"
  /\ Handled("process_notes", user, text, "accepted", SetState(user, "confirm"))

\* process_confirm, up to state.get_data(): any answer but yes clears the
\* state; with yes the handler has the data of the run and goes on to
\* create_hire (ONBOARDING_CHAT_ID is configured)
process_confirm(s, user, action) ==
  /\ wizard[user.id].state = "confirm"
  /\ IF action # "yes"
     THEN Handled("process_confirm", user, action, "cancelled", Cleared(user.id))
     ELSE Load(s, "process_confirm", "none",
               [user |-> user.id, start |-> wizard[user.id].start,
                run |-> wizard[user.id].run])

\* the rest of process_confirm: create_hire under a code that is free, or an
\* exception that is logged; then state.clear()
process_confirm_create(s, h, commit) ==
  LET c == sessions[s]
  IN  /\ c.phase = "loaded"
      /\ c.op = "process_confirm"
      /\ IF commit = "err"
         THEN Done(s, "raised") /\ UNCHANGED <<hires, history>>
         ELSE ~Exists(h) /\ Insert(s, h, c.arg.start, c.arg.user)
      /\ wizard' = Cleared(c.arg.user)
      /\ UNCHANGED <<today, wired, pass, delivered, fails, watch, last>>

InitWizard == Boot /\ watch = TRUE

\* the updates the wizard's router handles, from any user
NextWizard ==
  \/ \E user \in Users : cmd_newhire(user)
  \/ \E user \in Users : cancel_wizard(user)
  \/ \E user \in Users, text \in Typed : process_full_name(user, text)
  \/ \E user \in Users, text \in Typed : process_start_date(user, text)
  \/ \E user \in Users, text \in Typed : process_role(user, text)
  \/ \E user \in Users, text \in Typed : process_leader(user, text)
  \/ \E user \in Users, text \in Typed : process_legal(user, text)
  \/ \E user \in Users, text \in Typed : process_devops(user, text)
  \/ \E user \in Users, text \in Typed : process_docs_email(user, text)
  \/ \E user \in Users, action \in ChecklistItems \cup {"done"} :
       process_checklist(user, action)
  \/ \E user \in Users, text \in Typed : process_notes(user, text)
  \/ \E s \in SessionIds, user \in Users, action \in {"yes", "no"} :
       process_confirm(s, user, action)
  \/ \E s \in SessionIds, h \in HireIds, commit \in {"ok", "err"} :
       process_confirm_create(s, h, commit)

SpecWizard == InitWizard /\ [][NextWizard]_vars

\* ---- vocabulary of the properties ----

\* the last step was a check of a scheduler pass on a loaded hire
PassStep == last.op \in Kinds

Attempted == PassStep /\ last.result = "attempt"

Last(q) == q[Len(q)]

\* C1: once mark_completed made a hire COMPLETED and until reopen, no check
\* of a scheduler pass that loaded the hire as COMPLETED sends a legal
\* reminder, a devops reminder or an escalation for it
C1_NoNotificationWhenCompleted ==
  (PassStep /\ last.view.status = "COMPLETED" /\ last.stored = "COMPLETED")
    => last.result = "skip"

\* C2: the three flags are false when the hire is created, and no step of
\* any handler, of the clock or of a pass turns a true flag back to false
C2_FlagsMonotone ==
  [][ /\ \A h \in DOMAIN hires' \ DOMAIN hires :
           /\ ~hires'[h].legal_reminded
           /\ ~hires'[h].devops_reminded
           /\ ~hires'[h].escalated
      /\ \A h \in DOMAIN hires :
           /\ hires[h].legal_reminded => hires'[h].legal_reminded
           /\ hires[h].devops_reminded => hires'[h].devops_reminded
           /\ hires[h].escalated => hires'[h].escalated ]_vars

\* a flag is set and a reopen was the last thing done to the hire
C2_Witness ==
  \E h \in DOMAIN hires :
    /\ hires[h].legal_reminded \/ hires[h].devops_reminded \/ hires[h].escalated
    /\ Last(history[h]) = "REOPENED"
    /\ last = NoLast

\* C3: no kind of notification reaches its recipients more than once for the
\* same hire
C3_AtMostOneDelivery ==
  [][ (Attempted' /\ Reached(last')) => ~delivered[last'.hire][last'.op] ]_vars

\* C4: in the pass of send_reminders a flag is committed only after the chat
\* message of that notification was sent without raising; when the chat
\* message raises the flag stays false; a failing direct message to the
\* creator does not keep escalated from being set
C4_FlagOnlyAfterChatSend ==
  (wired = "reminders" /\ Attempted) =>
    /\ last.commit # "none" => last.chat = "ok"
    /\ last.chat # "ok" => ~hires[last.hire][FlagOf(last.op)]
    /\ hires[last.hire][FlagOf(last.op)] => (last.chat = "ok" /\ last.commit = "ok")
    /\ (last.chat = "ok" /\ last.commit = "ok") => hires[last.hire][FlagOf(last.op)]

\* an escalation whose chat message went out and whose direct message failed
C4_Witness ==
  /\ wired = "reminders"
  /\ Attempted
  /\ last.op = "escalation"
  /\ last.chat = "ok"
  /\ last.dm = "err"
  /\ last.commit = "ok"
  /\ hires[last.hire].escalated

\* C5: in the pass of check_reminders a notification of which no message was
\* delivered leaves its flag false
C5_FlagOnlyAfterDelivery ==
  (wired = "services" /\ Attempted /\ ~Reached(last)) =>
    ~hires[last.hire][FlagOf(last.op)]

\* the stored hire h is still due a notification of kind k, its flag aside
StillDue(h, k) ==
  /\ h \in DOMAIN hires
  /\ hires[h].status # "COMPLETED"
  /\ LET offsetDays == hires[h].start_date - today
     IN  CASE k = "legal" ->
                /\ hires[h].legal_status = "PENDING"
                /\ 0 < offsetDays /\ offsetDays <= LEGAL_REMINDER_DAYS
           [] k = "devops" ->
                /\ hires[h].devops_status = "PENDING"
                /\ 0 < offsetDays /\ offsetDays <= DEVOPS_REMINDER_DAYS
           [] k = "escalation" ->
                /\ offsetDays < 0
                /\ hires[h].legal_status = "PENDING" \/ hires[h].devops_status = "PENDING"
                /\ (0 - offsetDays) * 24 >= ESCALATION_HOURS

\* send_reminders wired
InitReminders == Init /\ wired = "reminders"

\* the periodic job of bot/scheduler/reminders.py
SchedulerReminders ==
  \/ send_reminders
  \/ check_legal_reminder
  \/ check_devops_reminder
  \/ check_escalation

\* one hire, the clock, the passes of send_reminders and the handlers that
\* decide whether the hire is still due a notification
NextReminders ==
  \/ \E h \in SoloIds, start \in StartDates, u \in Users : create_hire(h, start, u.id)
  \/ \E h \in SoloIds, u \in Users : docs_sent(h, u)
  \/ \E h \in SoloIds, u \in Users : access_granted(h, u)
  \/ \E h \in SoloIds, u \in Users : mark_complete(h, u)
  \/ \E h \in SoloIds, u \in Users : reopen_hire(h, u)
  \/ Tick
  \/ SchedulerReminders

\* the periodic job keeps running; the notifier and the store fail at most
\* MaxFail times
LiveSpec == InitReminders /\ [][NextReminders]_vars /\ WF_vars(SchedulerReminders)

\* C6: with send_reminders wired, a hire that is due a notification whose
\* flag is still false either stops being due or has the notification
\* delivered and the flag set, however many of the earlier sends failed
C6_RetryUntilDelivered ==
  \A h \in SoloIds, k \in Kinds :
    (wired = "reminders" /\ StillDue(h, k) /\ ~hires[h][FlagOf(k)])
      ~> (~StillDue(h, k) \/ (hires[h][FlagOf(k)] /\ delivered[h][k]))

\* a legal reminder that went out and was flagged after an earlier send of it
\* had failed (start date 4 on day 1: no other notification can be due)
C6_Witness ==
  /\ wired = "reminders"
  /\ today = 1
  /\ fails >= 1
  /\ Attempted
  /\ last.op = "legal"
  /\ last.chat = "ok"
  /\ last.commit = "ok"
  /\ hires[last.hire].start_date = 4
  /\ hires[last.hire].legal_reminded
  /\ delivered[last.hire]["legal"]

C8_ReminderEligibility ==
  (wired = "reminders" /\ PassStep /\ last.op \in {"legal", "devops"}) =>
    LET offsetDays == last.view.start_date - today
        pending == IF last.op = "legal"
                   THEN last.view.legal_status = "PENDING"
                   ELSE last.view.devops_status = "PENDING"
        threshold == IF last.op = "legal"
                     THEN LEGAL_REMINDER_DAYS ELSE DEVOPS_REMINDER_DAYS
    IN  (last.result = "attempt") <=>
          /\ pending
          /\ ~last.view[FlagOf(last.op)]
          /\ 0 < offsetDays
          /\ offsetDays <= threshold

\* a legal reminder sent exactly LEGAL_REMINDER_DAYS before the start date
C8_Witness ==
  /\ wired = "reminders"
  /\ Attempted
  /\ last.op = "legal"
  /\ last.view.start_date - today = LEGAL_REMINDER_DAYS

\* C9: the escalation check of either pass sends iff the loaded hire has
\* escalated false, offsetDays < 0, legal or devops PENDING and
\* abs(offsetDays) * 24 >= ESCALATION_HOURS; the leader sub-status plays no part
C9_EscalationEligibility ==
  (PassStep /\ last.op = "escalation") =>
    LET offsetDays == last.view.start_date - today
    IN  (last.result = "attempt") <=>
          /\ ~last.view.escalated
          /\ offsetDays < 0
          /\ \/ last.view.legal_status = "PENDING"
             \/ last.view.devops_status = "PENDING"
          /\ Abs(offsetDays) * 24 >= ESCALATION_HOURS

\* one day after the start date, legal PENDING and devops ACCESS_GRANTED: the
\* escalation is sent
C9_Witness ==
  /\ Attempted
  /\ last.op = "escalation"
  /\ last.view.start_date - today = -1
  /\ last.view.legal_status = "PENDING"
  /\ last.view.devops_status = "ACCESS_GRANTED"

SubStatusTags ==
  {"LEADER_STATUS_CHANGED", "LEGAL_STATUS_CHANGED", "DEVOPS_STATUS_CHANGED"}

\* C10: on a COMPLETED hire a sub-status update changes its own sub-status
\* and nothing else of the row, the overall status stays COMPLETED, and only
\* reopen moves the overall status away from COMPLETED
C10_CompletionSticky ==
  [][ \A h \in DOMAIN hires :
        hires[h].status = "COMPLETED" =>
          /\ hires'[h].status # "COMPLETED" =>
               history'[h] = Append(history[h], "REOPENED")
          /\ \A t \in SubStatusTags :
               history'[h] = Append(history[h], t) =>
                 /\ hires'[h].status = "COMPLETED"
                 /\ hires'[h] =
                      CASE t = "LEADER_STATUS_CHANGED" ->
                             [hires[h] EXCEPT !.leader_status = "ACKNOWLEDGED"]
                        [] t = "LEGAL_STATUS_CHANGED" ->
                             [hires[h] EXCEPT !.legal_status = "DOCS_SENT"]
                        [] t = "DEVOPS_STATUS_CHANGED" ->
                             [hires[h] EXCEPT !.devops_status = "ACCESS_GRANTED"] ]_vars

\* a hire completed with all sub-statuses PENDING, then acknowledged by its
\* leader: still COMPLETED
C10_Witness ==
  \E h \in DOMAIN hires :
    /\ history[h] = <<"CREATED", "COMPLETED", "LEADER_STATUS_CHANGED">>
    /\ hires[h].status = "COMPLETED"
    /\ hires[h].leader_status = "ACKNOWLEDGED"

\* ---- the overall status ----

\* the last step was a call of update_leader_status, update_legal_status or
\* update_devops_status that found its hire
UpdateCall ==
  /\ last.op \in {"update_leader_status", "update_legal_status",
                  "update_devops_status"}
  /\ last.result = "Hire"

SubStatusDone ==
  /\ last.op \in {"leader_ack", "docs_sent", "access_granted"}
  /\ last.result = "done"

\* C12: on a hire that only had sub-status actions since its creation, in
\* whichever order, the overall status is CREATED with none of the three
\* done, IN_PROGRESS with one or two, READY_FOR_DAY1 with all three, and each
\* action in the history has its sub-status done; deriving once more after a
\* sub-status action changes nothing
C12_OrderIndependent ==
  /\ \A h \in DOMAIN hires :
        Range(history[h]) \subseteq ({"CREATED"} \cup SubStatusTags) =>
          LET done == Range(history[h]) \cap SubStatusTags
          IN  /\ "LEADER_STATUS_CHANGED" \in done
                   <=> hires[h].leader_status = "ACKNOWLEDGED"
              /\ "LEGAL_STATUS_CHANGED" \in done
                   <=> hires[h].legal_status = "DOCS_SENT"
              /\ "DEVOPS_STATUS_CHANGED" \in done
                   <=> hires[h].devops_status = "ACCESS_GRANTED"
              /\ hires[h].status =
                   (CASE Cardinality(done) = 0 -> "CREATED"
                      [] Cardinality(done) = 3 -> "READY_FOR_DAY1"
                      [] OTHER -> "IN_PROGRESS")
  /\ SubStatusDone =>
        update_overall_status(hires[last.hire]) = hires[last.hire]

\* access granted, then documents sent, then the leader's acknowledgement
C12_Witness ==
  /\ SubStatusDone
  /\ history[last.hire] = <<"CREATED", "DEVOPS_STATUS_CHANGED",
                            "LEGAL_STATUS_CHANGED", "LEADER_STATUS_CHANGED">>
  /\ hires[last.hire].status = "READY_FOR_DAY1"

\* ---- completion and reopening ----

\* C13: the reopen handler, called by an account it authorizes on a hire
\* that is not COMPLETED, changes no row and appends no history entry
C13_ReopenOnlyWhenCompleted ==
  [][ ( /\ last'.op = "reopen"
        /\ last'.result \notin {"not_found", "unauthorized"}
        /\ hires[last'.hire].status # "COMPLETED" )
      => (hires' = hires /\ history' = history) ]_vars

\* C14: HireService.reopen on a COMPLETED hire sets the overall status to
\* IN_PROGRESS whatever the sub-statuses are, changes nothing else of the
\* row and appends one REOPENED history entry
C14_ReopenGivesInProgress ==
  [][ ( /\ last'.op = "reopen"
        /\ last'.result = "Hire"
        /\ hires[last'.hire].status = "COMPLETED" )
      => LET h == last'.hire
         IN  /\ hires'[h].status = "IN_PROGRESS"
             /\ hires'[h] = [hires[h] EXCEPT !.status = "IN_PROGRESS"]
             /\ history'[h] = Append(history[h], "REOPENED")
             /\ \A x \in DOMAIN hires \ {h} :
                   hires'[x] = hires[x] /\ history'[x] = history[x] ]_vars

\* a hire completed with nothing done, reopened: IN_PROGRESS, not CREATED
C14_Witness ==
  /\ last.op = "reopen"
  /\ last.result = "Hire"
  /\ last.view.status = "COMPLETED"
  /\ AllPending(last.view)
  /\ hires[last.hire].status = "IN_PROGRESS"
  /\ AllPending(hires[last.hire])

\* C15: HireService.mark_completed sets the overall status to COMPLETED from
\* every overall status and every combination of sub-statuses, changes
\* nothing else of the row (sub-statuses, flags, notes) and appends one
\* COMPLETED history entry
C15_CompleteForcesCompleted ==
  [][ (last'.op = "mark_completed" /\ last'.result = "Hire")
      => LET h == last'.hire
         IN  /\ hires'[h].status = "COMPLETED"
             /\ hires'[h] = [hires[h] EXCEPT !.status = "COMPLETED"]
             /\ history'[h] = Append(history[h], "COMPLETED")
             /\ \A x \in DOMAIN hires \ {h} :
                   hires'[x] = hires[x] /\ history'[x] = history[x] ]_vars

\* a CREATED hire with a note and a legal reminder behind it, completed with
\* its three sub-statuses still PENDING
C15_Witness ==
  /\ last.op = "mark_completed"
  /\ last.result = "Hire"
  /\ last.view.status = "CREATED"
  /\ hires[last.hire].status = "COMPLETED"
  /\ AllPending(hires[last.hire])
  /\ hires[last.hire].legal_reminded
  /\ hires[last.hire].notes # <<>>

\* ---- what the handlers refuse ----

\* the sub-status a handler sets is already set on the stored hire h
AlreadyDone(op, h) ==
  CASE op = "leader_ack" -> hires[h].leader_status = "ACKNOWLEDGED"
    [] op = "docs_sent" -> hires[h].legal_status = "DOCS_SENT"
    [] op = "access_granted" -> hires[h].devops_status = "ACCESS_GRANTED"

\* C16: a sub-status handler called by an account it authorizes on a hire
\* whose sub-status is already done changes no row and appends no history
\* entry
C16_RepeatIsNoOp ==
  [][ ( /\ last'.op \in {"leader_ack", "docs_sent", "access_granted"}
        /\ last'.result \notin {"not_found", "unauthorized"}
        /\ AlreadyDone(last'.op, last'.hire) )
      => (hires' = hires /\ history' = history) ]_vars

\* the legal assignee presses "documents sent" on a hire that has DOCS_SENT
C16_Witness ==
  /\ last.op = "docs_sent"
  /\ last.result = "already"
  /\ last.user = 3
  /\ hires[last.hire].legal_status = "DOCS_SENT"

\* the account a kept reply names
Actor(id) == CHOOSE u \in Actors : u.id = id

\* the action string a handler passes to the authorization check
ActionOf(op) == IF op = "add_note_prompt" THEN "add_note" ELSE op

GatedOps ==
  {"leader_ack", "docs_sent", "access_granted", "complete", "reopen",
   "add_note", "add_note_prompt"}

\* C17: a gated handler (the five buttons, the note button and /note) called
\* by an account for which the authorization check of its action is false
\* changes no row and appends no history entry
C17_UnauthorizedChangesNothing ==
  [][ ( /\ last'.op \in GatedOps
        /\ last'.hire \in DOMAIN hires
        /\ ~is_user_authorized_for_action(Actor(last'.user),
                                          hires[last'.hire], ActionOf(last'.op)) )
      => (hires' = hires /\ history' = history) ]_vars

\* the legal assignee sends /note for a hire they did not create
C17_Witness ==
  /\ last.op = "add_note"
  /\ last.result = "unauthorized"
  /\ last.user = 3
  /\ last.hire \in DOMAIN hires
  /\ hires[last.hire].notes = <<>>

C19_ManagementAuthorization ==
  [][ /\ ( last'.op \in {"complete", "reopen", "add_note", "add_note_prompt"}
             /\ last'.result # "too_long"
             /\ last'.hire \in DOMAIN hires )
          => ( (last'.result # "unauthorized") <=>
                 \/ last'.user = hires[last'.hire].creator_id
                 \/ last'.user \in admin_ids_list )
      /\ last'.op = "show_status"
          => /\ last'.hire \in DOMAIN hires => last'.result = "shown"
             /\ hires' = hires
             /\ history' = history ]_vars

\* the account the leader's handle resolved to presses "complete"
C19_Witness ==
  /\ last.op = "complete"
  /\ last.result = "unauthorized"
  /\ last.user = 2
  /\ last.hire \in DOMAIN hires
  /\ hires[last.hire].leader_id = 2


\* the mutating methods of HireService, by the name kept in last.op
ServiceOps ==
  {"update_leader_status", "update_legal_status", "update_devops_status",
   "mark_completed", "reopen", "add_note",
   "mark_legal_reminded", "mark_devops_reminded", "mark_escalated"}

\* C20: a mutating method called with a code that resolves to no hire changes
\* no row, appends no history entry and reports not-found: it returns None,
\* and None is returned for no code that resolves
C20_UnknownCodeReported ==
  [][ last'.op \in ServiceOps =>
        /\ last'.hire \notin DOMAIN hires =>
              /\ hires' = hires
              /\ history' = history
              /\ last'.result = "None"
        /\ last'.result = "None" => last'.hire \notin DOMAIN hires ]_vars


\* the action tag a handler's service call writes to status_history
TagOf(op) ==
  CASE op = "leader_ack" -> "LEADER_STATUS_CHANGED"
    [] op = "docs_sent" -> "LEGAL_STATUS_CHANGED"
    [] op = "access_granted" -> "DEVOPS_STATUS_CHANGED"
    [] op = "complete" -> "COMPLETED"
    [] op = "reopen" -> "REOPENED"
    [] op = "add_note" -> "NOTE_ADDED"
    [] OTHER -> "none"

\* the columns a history entry accounts for
Tracked(row) ==
  <<row.status, row.leader_status, row.legal_status, row.devops_status, row.notes>>

\* C21: a successful update_*_status, mark_completed, reopen or add_note call
\* appends exactly one history entry, of its own tag, in the step that changes
\* the row; a step that is no such call appends nothing and changes no
\* sub-status, overall status or notes; so the history of a hire holds the
\* CREATED entry and one entry per successful call
C21_OneEntryPerCall ==
  [][ \A h \in DOMAIN hires :
        IF last'.result = "done" /\ last'.hire = h
        THEN history'[h] = Append(history[h], TagOf(last'.op))
        ELSE /\ history'[h] = history[h]
             /\ Tracked(hires'[h]) = Tracked(hires[h]) ]_vars

\* a hire after two successful calls, the second a note
C21_Witness ==
  /\ last.op = "add_note"
  /\ last.result = "done"
  /\ last.hire \in DOMAIN hires
  /\ Len(history[last.hire]) = 3
  /\ history[last.hire][1] = "CREATED"
  /\ history[last.hire][3] = "NOTE_ADDED"
  /\ hires[last.hire].notes # <<>>


\* the flag column a session's call has committed, "none" if it has not
FlagWritten(c) ==
  IF c.phase # "done" \/ ~c.found THEN "none"
  ELSE IF c.op = "mark_legal_reminded" /\ c.result = "None" THEN "legal_reminded"
  ELSE IF c.op = "mark_devops_reminded" /\ c.result = "None" THEN "devops_reminded"
  ELSE IF c.op = "mark_escalated" /\ c.result = "None" THEN "escalated"
  ELSE IF c.op = "process_hire_reminders" /\ c.result = "sent" THEN FlagOf(c.arg)
  ELSE "none"

\* the interactive calls whose change C22 follows
InteractiveCalls ==
  {"update_leader_status", "update_legal_status", "update_devops_status",
   "mark_completed", "reopen"}

\* the stored row shows the change of the committed interactive call c
ChangeApplied(c, row) ==
  CASE c.op = "update_leader_status" -> row.leader_status = c.arg
    [] c.op = "update_legal_status" -> row.legal_status = c.arg
    [] c.op = "update_devops_status" -> row.devops_status = c.arg
    [] c.op = "mark_completed" -> row.status = "COMPLETED"
    [] c.op = "reopen" -> row.status = "IN_PROGRESS"

\* C22: when a flag write of the scheduler and an interactive call on the same
\* hire have both committed, in whichever order they loaded and committed, the
\* stored hire has the flag set and shows the interactive change
C22_NoLostUpdate ==
  \A s, t \in SessionIds :
    LET c == sessions[s]
        d == sessions[t]
    IN  ( /\ s # t
          /\ FlagWritten(c) # "none"
          /\ d.phase = "done"
          /\ d.op \in InteractiveCalls
          /\ d.result = "Hire"
          /\ d.hire = c.hire )
        => /\ hires[c.hire][FlagWritten(c)] = TRUE
           /\ ChangeApplied(d, hires[c.hire])

\* mark_legal_reminded and update_legal_status both loaded the hire before
\* either committed, and both have committed
C22_Witness ==
  /\ sessions["s1"].phase = "done"
  /\ sessions["s1"].op = "update_legal_status"
  /\ sessions["s1"].arg = "DOCS_SENT"
  /\ sessions["s1"].result = "Hire"
  /\ ~sessions["s1"].loaded.legal_reminded
  /\ sessions["s2"].phase = "done"
  /\ sessions["s2"].op = "mark_legal_reminded"
  /\ sessions["s2"].result = "None"
  /\ sessions["s2"].found
  /\ sessions["s2"].loaded.legal_status = "PENDING"
  /\ hires["H1"].legal_reminded
  /\ hires["H1"].legal_status = "DOCS_SENT"


\* C23: of two passes that overlap on a hire (two sessions that have both
\* loaded it before either commits its flag), at most one emits the
\* notification of a given kind: the flag is looked at again when it is
\* committed
C23_OnePassEmits ==
  \A s, t \in SessionIds :
    ( /\ s # t
      /\ sessions[s].op = "process_hire_reminders"
      /\ sessions[t].op = "process_hire_reminders"
      /\ sessions[s].hire = sessions[t].hire
      /\ sessions[s].arg = sessions[t].arg
      /\ sessions[s].result = "sent" )
    => sessions[t].result # "sent"


\* C24: a commit that fails leaves neither the field change nor the history
\* entry of its call in the store, and no hire has a one-shot flag set for a
\* kind of notification of which no message ever went out
C24_NoPartialUpdate ==
  [][ /\ \A s \in SessionIds :
           (sessions[s].phase = "loaded" /\ sessions'[s].result = "raised")
             => (hires' = hires /\ history' = history)
      /\ \A h \in DOMAIN hires' : \A k \in Kinds :
           hires'[h][FlagOf(k)] => delivered'[h][k] ]_vars


\* q starts with p
IsPrefix(p, q) ==
  /\ Len(p) <= Len(q)
  /\ \A i \in 1..Len(p) : p[i] = q[i]

\* C25: a hire that create_hire stores has overall status CREATED, the three
\* sub-statuses PENDING, the three flags false and a history of one CREATED
\* entry; and no step removes a hire or an entry of a history
C25_CreatedAndKept ==
  [][ /\ \A h \in DOMAIN hires' \ DOMAIN hires :
           /\ hires'[h].status = "CREATED"
           /\ hires'[h].leader_status = "PENDING"
           /\ hires'[h].legal_status = "PENDING"
           /\ hires'[h].devops_status = "PENDING"
           /\ ~hires'[h].legal_reminded
           /\ ~hires'[h].devops_reminded
           /\ ~hires'[h].escalated
           /\ history'[h] = <<"CREATED">>
      /\ DOMAIN hires \subseteq DOMAIN hires'
      /\ DOMAIN history' = DOMAIN hires'
      /\ \A h \in DOMAIN hires : IsPrefix(history[h], history'[h]) ]_vars

\* a hire that was completed and reopened and has a flag set by a pass
C25_Witness ==
  /\ "H1" \in DOMAIN hires
  /\ Len(history["H1"]) = 3
  /\ history["H1"][1] = "CREATED"
  /\ history["H1"][3] = "REOPENED"
  /\ hires["H1"].escalated


\* C26: a code keeps denoting the hire that was first stored under it: no
\* step, a creation that drew a code another creation has taken meanwhile
\* included, replaces the row of a stored code, changes what it was created
\* with, or restarts its history; the table has one row per code
C26_CodeNeverReassigned ==
  [][ \A h \in DOMAIN hires :
        /\ h \in DOMAIN hires'
        /\ hires'[h].start_date = hires[h].start_date
        /\ hires'[h].creator_id = hires[h].creator_id
        /\ IsPrefix(history[h], history'[h])
        /\ \A s \in SessionIds :
             ( /\ sessions[s].phase = "loaded"
               /\ sessions[s].op = "create_hire"
               /\ sessions[s].hire = h
               /\ sessions'[s].phase = "done" )
             => (hires'[h] = hires[h] /\ sessions'[s].result = "raised") ]_vars

\* two creations drew the same code while it was free, with different start
\* dates: the first is stored, the commit of the second raised
C26_Witness ==
  /\ sessions["s1"].op = "create_hire"
  /\ sessions["s2"].op = "create_hire"
  /\ sessions["s1"].hire = sessions["s2"].hire
  /\ sessions["s1"].result = "Hire"
  /\ sessions["s2"].result = "raised"
  /\ sessions["s1"].arg # sessions["s2"].arg
  /\ hires[sessions["s1"].hire].start_date = sessions["s1"].arg


\* the columns add_note must leave alone
NotNotes(row) ==
  <<row.status, row.leader_status, row.legal_status, row.devops_status,
    row.legal_reminded, row.devops_reminded, row.escalated>>

\* C27: a /note that is accepted puts its text at the end of the notes (what
\* was there before stays in front), appends one NOTE_ADDED entry and leaves
\* the overall status, the sub-statuses and the flags as they were; a text of
\* more than 1000 characters is refused; a refused /note changes nothing
C27_NoteAppended ==
  [][ last'.op = "add_note" =>
        /\ NoteLength(last'.arg) > 1000 => last'.result = "too_long"
        /\ IF last'.result = "done"
           THEN LET h == last'.hire
                IN  /\ IsPrefix(hires[h].notes, hires'[h].notes)
                    /\ Len(hires'[h].notes) = Len(hires[h].notes) + 1
                    /\ Last(hires'[h].notes) = last'.arg
                    /\ history'[h] = Append(history[h], "NOTE_ADDED")
                    /\ NotNotes(hires'[h]) = NotNotes(hires[h])
           ELSE hires' = hires /\ history' = history ]_vars

\* a second note on a hire that is in progress and was reminded
C27_Witness ==
  /\ last.op = "add_note"
  /\ last.result = "done"
  /\ Len(hires[last.hire].notes) = 2
  /\ hires[last.hire].status = "IN_PROGRESS"
  /\ hires[last.hire].legal_reminded


\* the scenario of C28: the handlers in order, the history it builds and the
\* overall status after each entry
ScenarioOps == <<"leader_ack", "docs_sent", "access_granted">>

ScenarioLog ==
  <<"CREATED", "LEADER_STATUS_CHANGED", "LEGAL_STATUS_CHANGED",
    "DEVOPS_STATUS_CHANGED">>

ScenarioStatus == <<"CREATED", "IN_PROGRESS", "IN_PROGRESS", "READY_FOR_DAY1">>

\* the step is the k-th of the scenario, on a hire that went through the
\* k - 1 before it and through nothing else since its creation
ScenarioStep(k, h) ==
  /\ last'.op = ScenarioOps[k]
  /\ last'.result = "done"
  /\ last'.hire = h
  /\ history[h] = SubSeq(ScenarioLog, 1, k)

\* C28 as stated: on a fresh hire leader-ack, docs-sent, access-granted give
\* the overall statuses CREATED, IN_PROGRESS, IN_PROGRESS, READY_FOR_DAY1, one
\* history entry per step, and a history of 3 entries in total at the end
C28_ScenarioThreeEntries ==
  [][ \A h \in DOMAIN hires : \A k \in 1..3 :
        ScenarioStep(k, h) =>
          /\ hires[h].status = ScenarioStatus[k]
          /\ hires'[h].status = ScenarioStatus[k + 1]
          /\ Len(history'[h]) = Len(history[h]) + 1
          /\ k = 3 => Len(history'[h]) = 3 ]_vars

\* C28, amended: the same statuses, one history entry per step, and at the
\* end a history of 4 entries: CREATED and the three sub-status changes
C28_ScenarioThreeChanges ==
  [][ \A h \in DOMAIN hires : \A k \in 1..3 :
        ScenarioStep(k, h) =>
          /\ hires[h].status = ScenarioStatus[k]
          /\ hires'[h].status = ScenarioStatus[k + 1]
          /\ history'[h] = SubSeq(ScenarioLog, 1, k + 1)
          /\ k = 3 => Len(history'[h]) = 4 ]_vars

\* the scenario at its end
C28_Witness ==
  /\ last.op = "access_granted"
  /\ last.result = "done"
  /\ history[last.hire] = ScenarioLog
  /\ hires[last.hire].status = "READY_FOR_DAY1"


\* C29: a pass that finds a hire LEGAL_REMINDER_DAYS days before its start
\* date, not completed, legal PENDING and not yet reminded, sends the legal
\* reminder, one notification, and with the message delivered and the commit
\* done legal_reminded is true; a legal check of a hire whose legal_reminded
\* is already stored sends nothing
C29_ReminderAtThreshold ==
  [][ last'.op = "legal" =>
        LET h == last'.hire
        IN  /\ ( /\ last'.days = LEGAL_REMINDER_DAYS
                 /\ pass.snap[h].status # "COMPLETED"
                 /\ pass.snap[h].legal_status = "PENDING"
                 /\ ~pass.snap[h].legal_reminded )
               => /\ last'.result = "attempt"
                  /\ (Reached(last') /\ last'.commit = "ok")
                       => (hires'[h].legal_reminded /\ delivered'[h]["legal"])
            /\ hires[h].legal_reminded
               => /\ last'.result = "skip"
                  /\ delivered' = delivered
                  /\ hires' = hires ]_vars

\* the second pass of the day: the hire is three days ahead, legal is still
\* PENDING, the reminder of the first pass was delivered, the check skips
C29_Witness ==
  /\ last.op = "legal"
  /\ last.result = "skip"
  /\ last.days = LEGAL_REMINDER_DAYS
  /\ hires[last.hire].legal_status = "PENDING"
  /\ hires[last.hire].status = "CREATED"
  /\ hires[last.hire].legal_reminded
  /\ delivered[last.hire]["legal"]


\* C30: a stop while a pass is in flight lets the pass finish the hire it is
\* working on: the stop ends no pass that is under way, and it leaves no hire
\* with a notification sent and its flag not written that was not so before
C30_StopLetsPassFinish ==
  [][ last'.op = "on_shutdown" =>
        /\ pass.phase = "idle"
        /\ \A h \in DOMAIN hires : \A k \in Kinds :
             (delivered'[h][k] /\ ~hires'[h][FlagOf(k)])
               => (delivered[h][k] /\ ~hires[h][FlagOf(k)]) ]_vars


\* the sub-status calls with the value that marks their dimension done
DoneCall(c) ==
  /\ c.phase = "done"
  /\ c.result = "Hire"
  /\ \/ c.op = "update_leader_status" /\ c.arg = "ACKNOWLEDGED"
     \/ c.op = "update_legal_status" /\ c.arg = "DOCS_SENT"
     \/ c.op = "update_devops_status" /\ c.arg = "ACCESS_GRANTED"

\* C31: when two sub-status updates of different dimensions of one hire have
\* both committed, however their loads and commits interleave, and the hire
\* was never completed and has all three sub-statuses done, its stored
\* overall status is READY_FOR_DAY1
C31_BothUpdatesGiveReady ==
  \A s, t \in SessionIds :
    LET c == sessions[s]
        d == sessions[t]
    IN  ( /\ s # t
          /\ DoneCall(c)
          /\ DoneCall(d)
          /\ c.op # d.op
          /\ c.hire = d.hire
          /\ "COMPLETED" \notin Range(history[c.hire])
          /\ AllDone(hires[c.hire]) )
        => hires[c.hire].status = "READY_FOR_DAY1"


\* C32: when two presses of the same sub-status button on one hire have both
\* been answered, however they interleave, at most one of them was answered
\* as done, and the history has one entry of that dimension
C32_SamePressOnce ==
  \A s, t \in SessionIds :
    LET c == sessions[s]
        d == sessions[t]
    IN  ( /\ s # t
          /\ c.phase = "done"
          /\ d.phase = "done"
          /\ c.op \in PressOps
          /\ d.op = c.op
          /\ d.hire = c.hire
          /\ c.result = "done" )
        => /\ d.result # "done"
           /\ Cardinality({i \in DOMAIN history[c.hire] :
                             history[c.hire][i] = ActionTag(PressCall(c.op))}) = 1


\* the sub-status columns with their done values
DoneValue ==
  [leader_status |-> "ACKNOWLEDGED", legal_status |-> "DOCS_SENT",
   devops_status |-> "ACCESS_GRANTED"]

\* C33: after every step of the handlers a hire that is READY_FOR_DAY1 has
\* its three sub-statuses done, and no step takes a sub-status that was done
\* back to PENDING
C33_ReadyMeansAllDone ==
  [][ /\ \A h \in DOMAIN hires' :
           hires'[h].status = "READY_FOR_DAY1" => AllDone(hires'[h])
      /\ \A h \in DOMAIN hires : \A c \in DOMAIN DoneValue :
           hires[h][c] = DoneValue[c] => hires'[h][c] = DoneValue[c] ]_vars

\* a hire made ready by its third sub-status handler, then a press of the
\* acknowledge button again: it is still ready with all three done
C33_Witness ==
  /\ last.op = "leader_ack"
  /\ last.result = "already"
  /\ hires[last.hire].status = "READY_FOR_DAY1"
  /\ AllDone(hires[last.hire])


\* C34: a step that adds a sub-status change, a completion or a reopening to
\* a hire's history leaves the hire with an overall status other than CREATED,
\* and no step takes a hire whose overall status is not CREATED to CREATED
C34_CreatedNeverAgain ==
  [][ \A h \in DOMAIN hires :
        /\ hires[h].status # "CREATED" => hires'[h].status # "CREATED"
        /\ ( /\ Len(history'[h]) = Len(history[h]) + 1
             /\ Last(history'[h]) \in SubStatusTags \cup {"COMPLETED", "REOPENED"} )
           => hires'[h].status # "CREATED" ]_vars

\* a hire completed and reopened with nothing done: its three sub-statuses are
\* PENDING as at its creation, and its overall status is IN_PROGRESS
C34_Witness ==
  \E h \in DOMAIN hires :
    /\ history[h] = <<"CREATED", "COMPLETED", "REOPENED">>
    /\ AllPending(hires[h])
    /\ hires[h].status = "IN_PROGRESS"


\* C35: a handler that runs on a hire as it is stored (no other commit between
\* its read and its commit), with the three sub-statuses done: a reopening
\* leaves the overall status IN_PROGRESS, from IN_PROGRESS only a completion
\* changes the overall status, and a hire that is not READY_FOR_DAY1 does not
\* become so
C35_ReopenedStaysInProgress ==
  [][ \A s \in SessionIds :
        LET c == sessions[s]
            d == sessions'[s]
        IN  ( /\ c.phase = "loaded"
              /\ d.phase = "done"
              /\ c.op \in ButtonOps
              /\ c.found
              /\ c.loaded = hires[c.hire]
              /\ AllDone(c.loaded) )
            => LET before == hires[c.hire].status
                   after == hires'[c.hire].status
               IN  /\ (c.op = "reopen" /\ d.result = "done")
                        => after = "IN_PROGRESS"
                   /\ before = "IN_PROGRESS"
                        => \/ after = "IN_PROGRESS"
                           \/ after = "COMPLETED" /\ c.op = "complete"
                   /\ before # "READY_FOR_DAY1" => after # "READY_FOR_DAY1" ]_vars

\* a completed hire with everything done is reopened, and then the leader
\* presses acknowledge: the press is refused and the hire is IN_PROGRESS
C35_Witness ==
  /\ sessions["s1"].phase = "done"
  /\ sessions["s1"].op = "reopen"
  /\ sessions["s1"].result = "done"
  /\ sessions["s1"].loaded.status = "COMPLETED"
  /\ AllDone(sessions["s1"].loaded)
  /\ sessions["s2"].phase = "done"
  /\ sessions["s2"].op = "leader_ack"
  /\ sessions["s2"].result = "already"
  /\ sessions["s2"].loaded.status = "IN_PROGRESS"
  /\ hires["H1"].status = "IN_PROGRESS"


\* C36: a step of a scheduler pass (its query or one of its checks) leaves
\* the set of hires and every history as they were, and the only column it
\* changes is the flag of the kind it has just attempted to notify, on the
\* hire of the check, from FALSE to TRUE
C36_PassWritesOnlyItsFlag ==
  [][ (pass' # pass \/ last'.op \in Kinds) =>
        /\ DOMAIN hires' = DOMAIN hires
        /\ history' = history
        /\ \A h \in DOMAIN hires : \A c \in DOMAIN hires[h] :
             hires'[h][c] # hires[h][c] =>
               /\ last'.op \in Kinds
               /\ last'.result = "attempt"
               /\ h = last'.hire
               /\ c = FlagOf(last'.op)
               /\ hires'[h][c] = TRUE ]_vars

\* a legal reminder went out and its flag was committed on a hire that the
\* handlers had taken to IN_PROGRESS and that has no other flag
C36_Witness ==
  /\ last.op = "legal"
  /\ last.result = "attempt"
  /\ last.commit = "ok"
  /\ hires[last.hire].legal_reminded
  /\ ~hires[last.hire].devops_reminded
  /\ ~hires[last.hire].escalated
  /\ hires[last.hire].status = "IN_PROGRESS"
  /\ Len(history[last.hire]) > 1


\* C37: a pass that sends a legal or devops reminder for a hire does so while
\* the stored sub-status of that dimension is PENDING, whatever the handlers
\* have committed since the pass made its query
C37_NoReminderAfterDone ==
  /\ (Attempted /\ last.op = "legal")
        => hires[last.hire].legal_status = "PENDING"
  /\ (Attempted /\ last.op = "devops")
        => hires[last.hire].devops_status = "PENDING"


\* C38: the two passes decide alike: whenever a check of send_reminders
\* (bot/scheduler/reminders.py) has looked at a hire, it attempted the
\* notification exactly when process_hire_reminders of check_reminders
\* (bot/services/scheduler.py) attempts that kind for the same hire state on
\* the same day
C38_PassesDecideAlike ==
  (wired = "reminders" /\ PassStep) =>
    ((last.result = "attempt") <=> NeedsNotification(last.view, last.op))


\* the state the wizard sets after state st
StateAfter(st) ==
  IF \E i \in 1..(Len(WizardStates) - 1) : WizardStates[i] = st
  THEN WizardStates[(CHOOSE i \in 1..(Len(WizardStates) - 1) : WizardStates[i] = st) + 1]
  ELSE "none"

\* C39: a step adds a hire only as the end of a process_confirm that was
\* entered in state confirm with answer yes; a user's wizard state changes
\* only to the first state by /newhire of an allowed creator, to the next
\* state of the order by an accepted input, or to no state; a refused input
\* changes nothing of the wizard, and cancel leaves the user without a state
\* and adds no hire (the steps of process_confirm are the ones that change
\* sessions; the other handlers leave their answer in last)
C39_HireOnlyAfterWholeWizard ==
  [][ /\ DOMAIN hires' # DOMAIN hires =>
           \E s \in SessionIds :
             /\ sessions[s].phase = "loaded"
             /\ sessions[s].op = "process_confirm"
             /\ sessions'[s].result = "Hire"
      /\ \A s \in SessionIds :
           (sessions[s].phase = "idle" /\ sessions'[s].op = "process_confirm")
             => /\ wizard[sessions'[s].arg.user].state = "confirm"
                /\ sessions'[s].arg.user \in allowed_creators_list
      /\ \A id \in DOMAIN wizard :
           wizard'[id].state # wizard[id].state =>
             \/ wizard'[id].state = "none"
             \/ /\ wizard'[id].state = "full_name"
                /\ sessions' = sessions
                /\ last'.op = "cmd_newhire"
                /\ id \in allowed_creators_list
             \/ /\ wizard'[id].state = StateAfter(wizard[id].state)
                /\ sessions' = sessions
                /\ last'.result = "accepted"
                /\ last'.user = id
      /\ (sessions' = sessions /\ last'.result = "refused") => wizard' = wizard
      /\ (sessions' = sessions /\ last'.op = "cancel_wizard") =>
           /\ wizard'[last'.user].state = "none"
           /\ hires' = hires ]_vars

\* a hire exists, created by the confirmation of the allowed creator's first
\* run with the later start date, and the run is over
C39_Witness ==
  /\ hires # <<>>
  /\ \E s \in SessionIds :
       /\ sessions[s].op = "process_confirm"
       /\ sessions[s].result = "Hire"
       /\ sessions[s].arg.start = 4
  /\ wizard[1].state = "none"
  /\ wizard[1].run = 1


\* C40: one run of the wizard creates one hire at most: two process_confirm
\* handlers that have both executed create_hire belong to different runs
C40_OneHirePerRun ==
  \A s, t \in SessionIds :
    ( /\ s # t
      /\ sessions[s].op = "process_confirm"
      /\ sessions[t].op = "process_confirm"
      /\ sessions[s].result = "Hire"
      /\ sessions[t].result = "Hire" )
    => sessions[s].arg # sessions[t].arg

====
